---- MODULE Spec2Model ----
(***************************************************************************)
(* The query classifier (HypervisorAgent.suggest_solution), the lookup     *)
(* operations of the three provider helpers and the request handlers of    *)
(* app.py and simple_app.py, as a state machine.                           *)
(*                                                                         *)
(* One request is handled at a time: Arrive puts a request (an HTTP        *)
(* request to one of the two Flask applications, or a direct call of a     *)
(* method, as the test scripts make) into `request`; the action of the     *)
(* handler or method it names computes `response` and records in `calls`   *)
(* the agent and helper methods it invoked; Reply hands the response back  *)
(* and leaves the process idle.  The module-level objects (agent and the   *)
(* three helpers) are the remaining state.                                 *)
(*                                                                         *)
(* SpecHistory is the same machine with a record of one earlier request    *)
(* and its response (`remembered`), against which later responses are      *)
(* compared.  SpecConcurrent runs several requests at once, each in its    *)
(* own frame (`threads`), one statement of a handler at a time.            *)
(* SpecCaller keeps the lists the methods return as objects (`heap`), so    *)
(* that a caller can change a list it was given and call again.            *)
(*                                                                         *)
(* Text that comes from outside (form fields, URL parts, arguments of a    *)
(* direct call) is a sequence of one-character strings, so that strip,     *)
(* lower and the substring test are computed character by character.  The *)
(* literals of the code (dictionary keys, recommendations, snippets) are   *)
(* strings; text(s) is the string with the characters of s, used where the *)
(* code looks a text up in a dictionary or formats it into a message.      *)
(*                                                                         *)
(* azure_helper.py (generate_terraform_vm, lines 24-165) and gcp_helper.py *)
(* (generate_terraform_compute, lines 24-148) hold f-string templates with *)
(* unescaped braces, so neither module compiles as it stands, and app.py,  *)
(* which imports both, cannot start.  The methods modelled here lie        *)
(* outside those templates and are translated from their own bodies: the   *)
(* model says what each method and handler does once the templates parse;  *)
(* a method that returns such a template itself has no text to return and  *)
(* is modelled as raising SyntaxError.                                     *)
(***************************************************************************)
EXTENDS Integers, Sequences, FiniteSets, TLC

VARIABLES
  agent,         \* app.py:18, simple_app.py:16  agent = HypervisorAgent()
  aws_helper,    \* app.py:19  aws_helper = AWSHelper()
  azure_helper,  \* app.py:20  azure_helper = AzureHelper()
  gcp_helper,    \* app.py:21  gcp_helper = GCPHelper()
  request,       \* the request being handled, NoRequest when idle
  response,      \* what the handler or method returned, NoResponse before
  calls,         \* the agent/helper methods invoked for this request, in order
  remembered,    \* an earlier request with the response it got (history)
  threads,       \* the requests being handled at once, each with its frame
  heap           \* the lists returned to the caller, as objects

catalog == <<agent, aws_helper, azure_helper, gcp_helper>>
aside == <<remembered, threads, heap>>
vars == <<agent, aws_helper, azure_helper, gcp_helper, request, response, calls,
          remembered, threads, heap>>

----------------------------------------------------------------------------
(* Bounds of the model.                                                    *)

\* A query is the concatenation of at most MaxChunks pieces of QueryChunks.
MaxChunks == 3

----------------------------------------------------------------------------
(* Python values and string operations.                                    *)

\* Python's None where a text is expected: no text equals it, since every
\* element of a text is a one-character string.
None == <<"None">>

\* the string with the characters of s
RECURSIVE text(_)
text(s) == IF s = <<>> THEN "" ELSE Head(s) \o text(Tail(s))

\* {x} inside an f-string: str(x); None is formatted as the text None
format(x) == text(x)

\* The outcome of evaluating an expression or a call: a value or an exception.
Return(v) == [kind |-> "return", value |-> v]
Raise(e) == [kind |-> "raise", exc |-> e]

\* k in d, for a dictionary with string keys: None is no key
has_key(d, k) == k # None /\ text(k) \in DOMAIN d

\* d.get(k, default)
dict_get(d, k, default) == IF has_key(d, k) THEN d[text(k)] ELSE default

\* d[k]: KeyError when k is no key of d
dict_index(d, k) == IF has_key(d, k) THEN Return(d[text(k)]) ELSE Raise("KeyError")

\* The characters str.strip() removes (those the model's inputs can hold).
Whitespace == {" ", "\t", "\n", "\r"}

UpperCase == << "A", "B", "C", "D", "E", "F", "G", "H", "I", "J", "K", "L", "M",
                "N", "O", "P", "Q", "R", "S", "T", "U", "V", "W", "X", "Y", "Z" >>
LowerCase == << "a", "b", "c", "d", "e", "f", "g", "h", "i", "j", "k", "l", "m",
                "n", "o", "p", "q", "r", "s", "t", "u", "v", "w", "x", "y", "z" >>

lower_char(c) ==
  IF \E i \in DOMAIN UpperCase : UpperCase[i] = c
  THEN LowerCase[CHOOSE i \in DOMAIN UpperCase : UpperCase[i] = c]
  ELSE c

\* s.lower()
lower(s) == [i \in 1..Len(s) |-> lower_char(s[i])]

RECURSIVE lstrip(_)
lstrip(s) == IF s # <<>> /\ Head(s) \in Whitespace THEN lstrip(Tail(s)) ELSE s

RECURSIVE rstrip(_)
rstrip(s) ==
  IF s # <<>> /\ s[Len(s)] \in Whitespace THEN rstrip(SubSeq(s, 1, Len(s) - 1)) ELSE s

\* s.strip()
strip(s) == rstrip(lstrip(s))

\* sub in s
contains(sub, s) ==
  \E i \in 0..(Len(s) - Len(sub)) : SubSeq(s, i + 1, i + Len(sub)) = sub

\* bool(s) of a character sequence or None: the empty string and None are falsy
truthy(s) == s # <<>> /\ s # None

----------------------------------------------------------------------------
(* String literals of the code that are inspected or compared as text.     *)

aws == <<"a", "w", "s">>
azure == <<"a", "z", "u", "r", "e">>
gcp == <<"g", "c", "p">>
auto == <<"a", "u", "t", "o">>
General == <<"G", "e", "n", "e", "r", "a", "l">>
terraform == <<"t", "e", "r", "r", "a", "f", "o", "r", "m">>
kubernetes == <<"k", "u", "b", "e", "r", "n", "e", "t", "e", "s">>

----------------------------------------------------------------------------
(* Snippet texts, verbatim.                                                *)

\* hypervisor_agent.py, _get_terraform_example: examples['aws']
terraform_example_aws ==
  "\n# AWS EC2 instance with Terraform\nresource \"aws_instance\" \"web\" {\n  ami           = \"ami-0c55b159cbfafe1d0\"\n  instance_type = \"t2.micro\"\n  \n  tags = {\n    Name = \"WebServer\"\n  }\n}\n            "

\* hypervisor_agent.py, _get_terraform_example: examples['azure']
terraform_example_azure ==
  "\n# Azure VM with Terraform\nresource \"azurerm_linux_virtual_machine\" \"web\" {\n  name                = \"web-vm\"\n  resource_group_name = azurerm_resource_group.main.name\n  location            = azurerm_resource_group.main.location\n  size                = \"Standard_B1s\"\n  admin_username      = \"adminuser\"\n}\n            "

\* hypervisor_agent.py, _get_terraform_example: examples['gcp']
terraform_example_gcp ==
  "\n# GCP Compute instance with Terraform\nresource \"google_compute_instance\" \"web\" {\n  name         = \"web-instance\"\n  machine_type = \"e2-micro\"\n  zone         = \"us-central1-a\"\n  \n  boot_disk {\n    initialize_params {\n      image = \"debian-cloud/debian-11\"\n    }\n  }\n}\n            "

\* aws_helper.py, generate_boto3_example: examples['ec2']['list_instances']
boto3_ec2_list_instances ==
  "\nimport boto3\n\nec2 = boto3.client('ec2')\nresponse = ec2.describe_instances()\n\nfor reservation in response['Reservations']:\n    for instance in reservation['Instances']:\n        print(f\"Instance ID: {instance['InstanceId']}\")\n        print(f\"State: {instance['State']['Name']}\")\n        print(f\"Type: {instance['InstanceType']}\")\n        print(\"---\")\n                "

\* aws_helper.py, generate_boto3_example: examples['ec2']['create_instance']
boto3_ec2_create_instance ==
  "\nimport boto3\n\nec2 = boto3.client('ec2')\n\nresponse = ec2.run_instances(\n    ImageId='ami-0c55b159cbfafe1d0',\n    MinCount=1,\n    MaxCount=1,\n    InstanceType='t2.micro',\n    KeyName='my-key-pair',\n    SecurityGroupIds=['sg-12345678'],\n    SubnetId='subnet-12345678',\n    TagSpecifications=[\n        {\n            'ResourceType': 'instance',\n            'Tags': [\n                {'Key': 'Name', 'Value': 'MyInstance'}\n            ]\n        }\n    ]\n)\n\nprint(f\"Instance created: {response['Instances'][0]['InstanceId']}\")\n                "

\* aws_helper.py, generate_boto3_example: examples['s3']['upload_file']
boto3_s3_upload_file ==
  "\nimport boto3\n\ns3 = boto3.client('s3')\n\n# Upload a file\ns3.upload_file('local_file.txt', 'my-bucket', 'remote_file.txt')\n\n# Upload with metadata\ns3.upload_file(\n    'local_file.txt', \n    'my-bucket', \n    'remote_file.txt',\n    ExtraArgs={'Metadata': {'uploaded-by': 'python-script'}}\n)\n                "

\* aws_helper.py, generate_boto3_example: examples['s3']['list_objects']
boto3_s3_list_objects ==
  "\nimport boto3\n\ns3 = boto3.client('s3')\n\nresponse = s3.list_objects_v2(Bucket='my-bucket')\n\nfor obj in response.get('Contents', []):\n    print(f\"Key: {obj['Key']}\")\n    print(f\"Size: {obj['Size']} bytes\")\n    print(f\"Modified: {obj['LastModified']}\")\n    print(\"---\")\n                "

\* azure_helper.py, generate_azure_sdk_example: examples['compute']['list_vms']
azure_sdk_compute_list_vms ==
  "\nfrom azure.identity import DefaultAzureCredential\nfrom azure.mgmt.compute import ComputeManagementClient\n\ncredential = DefaultAzureCredential()\nsubscription_id = \"your-subscription-id\"\n\ncompute_client = ComputeManagementClient(credential, subscription_id)\n\n# List all VMs in subscription\nfor vm in compute_client.virtual_machines.list_all():\n    print(f\"VM Name: {vm.name}\")\n    print(f\"Location: {vm.location}\")\n    print(f\"VM Size: {vm.hardware_profile.vm_size}\")\n    print(\"---\")\n                "

\* azure_helper.py, generate_azure_sdk_example: examples['compute']['create_vm']
azure_sdk_compute_create_vm ==
  "\nfrom azure.identity import DefaultAzureCredential\nfrom azure.mgmt.compute import ComputeManagementClient\nfrom azure.mgmt.network import NetworkManagementClient\nfrom azure.mgmt.resource import ResourceManagementClient\n\ncredential = DefaultAzureCredential()\nsubscription_id = \"your-subscription-id\"\nresource_group_name = \"my-resource-group\"\nvm_name = \"my-vm\"\n\ncompute_client = ComputeManagementClient(credential, subscription_id)\n\nvm_parameters = {\n    'location': 'East US',\n    'os_profile': {\n        'computer_name': vm_name,\n        'admin_username': 'adminuser',\n        'linux_configuration': {\n            'disable_password_authentication': True,\n            'ssh': {\n                'public_keys': [{\n                    'path': '/home/adminuser/.ssh/authorized_keys',\n                    'key_data': 'your-ssh-public-key'\n                }]\n            }\n        }\n    },\n    'hardware_profile': {\n        'vm_size': 'Standard_B1s'\n    },\n    'storage_profile': {\n        'image_reference': {\n            'publisher': 'Canonical',\n            'offer': '0001-com-ubuntu-server-jammy',\n            'sku': '22_04-lts',\n            'version': 'latest'\n        }\n    },\n    'network_profile': {\n        'network_interfaces': [{\n            'id': '/subscriptions/{subscription_id}/resourceGroups/{resource_group_name}/providers/Microsoft.Network/networkInterfaces/{vm_name}-nic'\n        }]\n    }\n}\n\nasync_vm_creation = compute_client.virtual_machines.begin_create_or_update(\n    resource_group_name, vm_name, vm_parameters\n)\nvm_result = async_vm_creation.result()\n\nprint(f\"VM {vm_result.name} created successfully\")\n                "

\* azure_helper.py, generate_azure_sdk_example: examples['storage']['upload_blob']
azure_sdk_storage_upload_blob ==
  "\nfrom azure.storage.blob import BlobServiceClient\nfrom azure.identity import DefaultAzureCredential\n\ncredential = DefaultAzureCredential()\naccount_url = \"https://yourstorageaccount.blob.core.windows.net\"\n\nblob_service_client = BlobServiceClient(account_url, credential=credential)\ncontainer_name = \"mycontainer\"\nblob_name = \"myblob.txt\"\ndata = \"Hello, Azure Blob Storage!\"\n\n# Upload blob\nblob_client = blob_service_client.get_blob_client(\n    container=container_name, \n    blob=blob_name\n)\n\nblob_client.upload_blob(data, overwrite=True)\nprint(f\"Blob {blob_name} uploaded successfully\")\n                "

\* azure_helper.py, generate_azure_sdk_example: examples['storage']['list_blobs']
azure_sdk_storage_list_blobs ==
  "\nfrom azure.storage.blob import BlobServiceClient\nfrom azure.identity import DefaultAzureCredential\n\ncredential = DefaultAzureCredential()\naccount_url = \"https://yourstorageaccount.blob.core.windows.net\"\n\nblob_service_client = BlobServiceClient(account_url, credential=credential)\ncontainer_name = \"mycontainer\"\n\ncontainer_client = blob_service_client.get_container_client(container_name)\n\n# List blobs in container\nfor blob in container_client.list_blobs():\n    print(f\"Blob name: {blob.name}\")\n    print(f\"Size: {blob.size} bytes\")\n    print(f\"Last modified: {blob.last_modified}\")\n    print(\"---\")\n                "

\* gcp_helper.py, generate_gcp_sdk_example: examples['compute']['list_instances']
gcp_sdk_compute_list_instances ==
  "\nfrom google.cloud import compute_v1\n\ndef list_all_instances(project_id: str):\n    \"\"\"\n    List all instances in the given project in all zones.\n    \"\"\"\n    instance_client = compute_v1.InstancesClient()\n    zones_client = compute_v1.ZonesClient()\n    \n    # Get all zones\n    zones = zones_client.list(project=project_id)\n    \n    for zone in zones:\n        print(f\"Instances in zone: {zone.name}\")\n        \n        instances = instance_client.list(project=project_id, zone=zone.name)\n        \n        for instance in instances:\n            print(f\"  Name: {instance.name}\")\n            print(f\"  Machine Type: {instance.machine_type}\")\n            print(f\"  Status: {instance.status}\")\n            print(\"  ---\")\n\n# Usage\nproject_id = \"your-project-id\"\nlist_all_instances(project_id)\n                "

\* gcp_helper.py, generate_gcp_sdk_example: examples['compute']['create_instance']
gcp_sdk_compute_create_instance ==
  "\nfrom google.cloud import compute_v1\nimport time\n\ndef create_instance(project_id: str, zone: str, instance_name: str):\n    \"\"\"\n    Create a new instance in the given project and zone.\n    \"\"\"\n    instance_client = compute_v1.InstancesClient()\n    \n    # Configure the machine\n    config = compute_v1.Instance()\n    config.name = instance_name\n    config.machine_type = f\"zones/{zone}/machineTypes/e2-micro\"\n    \n    # Configure the boot disk\n    boot_disk = compute_v1.AttachedDisk()\n    boot_disk.auto_delete = True\n    boot_disk.boot = True\n    boot_disk.type_ = compute_v1.AttachedDisk.Type.PERSISTENT\n    \n    initialize_params = compute_v1.AttachedDiskInitializeParams()\n    initialize_params.source_image = \"projects/debian-cloud/global/images/family/debian-11\"\n    initialize_params.disk_size_gb = 20\n    boot_disk.initialize_params = initialize_params\n    \n    config.disks = [boot_disk]\n    \n    # Configure the network interface\n    network_interface = compute_v1.NetworkInterface()\n    network_interface.name = \"global/networks/default\"\n    \n    access_config = compute_v1.AccessConfig()\n    access_config.type_ = compute_v1.AccessConfig.Type.ONE_TO_ONE_NAT\n    access_config.name = \"External NAT\"\n    network_interface.access_configs = [access_config]\n    \n    config.network_interfaces = [network_interface]\n    \n    # Create the instance\n    request = compute_v1.InsertInstanceRequest()\n    request.project = project_id\n    request.zone = zone\n    request.instance_resource = config\n    \n    operation = instance_client.insert(request=request)\n    \n    print(f\"Creating instance {instance_name}...\")\n    \n    # Wait for the operation to complete\n    while operation.status != compute_v1.Operation.Status.DONE:\n        time.sleep(1)\n        operation = compute_v1.ZoneOperationsClient().get(\n            project=project_id, zone=zone, operation=operation.name\n        )\n    \n    print(f\"Instance {instance_name} created successfully!\")\n\n# Usage\ncreate_instance(\"your-project-id\", \"us-central1-a\", \"my-instance\")\n                "

\* gcp_helper.py, generate_gcp_sdk_example: examples['storage']['upload_blob']
gcp_sdk_storage_upload_blob ==
  "\nfrom google.cloud import storage\n\ndef upload_blob(bucket_name: str, source_file_name: str, destination_blob_name: str):\n    \"\"\"Uploads a file to the bucket.\"\"\"\n    \n    storage_client = storage.Client()\n    bucket = storage_client.bucket(bucket_name)\n    blob = bucket.blob(destination_blob_name)\n    \n    # Upload the file\n    blob.upload_from_filename(source_file_name)\n    \n    print(f\"File {source_file_name} uploaded to {destination_blob_name}.\")\n    \n    # Make the blob publicly viewable (optional)\n    blob.make_public()\n    print(f\"Blob {destination_blob_name} is publicly accessible at {blob.public_url}\")\n\n# Usage\nupload_blob(\"my-bucket\", \"local-file.txt\", \"storage-object-name.txt\")\n                "

\* gcp_helper.py, generate_gcp_sdk_example: examples['storage']['list_blobs']
gcp_sdk_storage_list_blobs ==
  "\nfrom google.cloud import storage\n\ndef list_blobs(bucket_name: str):\n    \"\"\"Lists all the blobs in the bucket.\"\"\"\n    \n    storage_client = storage.Client()\n    bucket = storage_client.bucket(bucket_name)\n    \n    # List all blobs in the bucket\n    blobs = bucket.list_blobs()\n    \n    print(f\"Blobs in bucket {bucket_name}:\")\n    for blob in blobs:\n        print(f\"  Name: {blob.name}\")\n        print(f\"  Size: {blob.size} bytes\")\n        print(f\"  Created: {blob.time_created}\")\n        print(f\"  Updated: {blob.updated}\")\n        print(\"  ---\")\n\n# Usage\nlist_blobs(\"my-bucket\")\n                "

\* gcp_helper.py, generate_gcp_sdk_example: examples['storage']['download_blob']
gcp_sdk_storage_download_blob ==
  "\nfrom google.cloud import storage\n\ndef download_blob(bucket_name: str, source_blob_name: str, destination_file_name: str):\n    \"\"\"Downloads a blob from the bucket.\"\"\"\n    \n    storage_client = storage.Client()\n    bucket = storage_client.bucket(bucket_name)\n    blob = bucket.blob(source_blob_name)\n    \n    # Download the file\n    blob.download_to_filename(destination_file_name)\n    \n    print(f\"Downloaded {source_blob_name} to {destination_file_name}.\")\n\n# Usage\ndownload_blob(\"my-bucket\", \"storage-object-name.txt\", \"local-file.txt\")\n                "

\* simple_app.py, generate_sdk: examples['ec2']['list_instances']
simple_sdk_ec2_list_instances ==
  "import boto3\n\nec2 = boto3.client('ec2')\nresponse = ec2.describe_instances()\n\nfor reservation in response['Reservations']:\n    for instance in reservation['Instances']:\n        print(f\"Instance ID: {instance['InstanceId']}\")\n        print(f\"State: {instance['State']['Name']}\")"

\* simple_app.py, generate_sdk: examples['ec2']['create_instance']
simple_sdk_ec2_create_instance ==
  "import boto3\n\nec2 = boto3.client('ec2')\nresponse = ec2.run_instances(\n    ImageId='ami-0c55b159cbfafe1d0',\n    MinCount=1,\n    MaxCount=1,\n    InstanceType='t2.micro'\n)\n\nprint(f\"Instance created: {response['Instances'][0]['InstanceId']}\")"

\* simple_app.py, generate_sdk: examples['s3']['upload_file']
simple_sdk_s3_upload_file ==
  "import boto3\n\ns3 = boto3.client('s3')\ns3.upload_file('local_file.txt', 'my-bucket', 'remote_file.txt')\nprint(\"File uploaded successfully\")"

\* simple_app.py, generate_sdk: examples['s3']['list_objects']
simple_sdk_s3_list_objects ==
  "import boto3\n\ns3 = boto3.client('s3')\nresponse = s3.list_objects_v2(Bucket='my-bucket')\n\nfor obj in response.get('Contents', []):\n    print(f\"Key: {obj['Key']}\")\n    print(f\"Size: {obj['Size']} bytes\")"

\* hypervisor_agent.py, _get_k8s_example: the returned text
k8s_example ==
  "\napiVersion: apps/v1\nkind: Deployment\nmetadata:\n  name: web-app\nspec:\n  replicas: 3\n  selector:\n    matchLabels:\n      app: web-app\n  template:\n    metadata:\n      labels:\n        app: web-app\n    spec:\n      containers:\n      - name: web\n        image: nginx:1.21\n        ports:\n        - containerPort: 80\n        "

----------------------------------------------------------------------------
(* The module-level objects and the tables the lookups read.               *)

\* hypervisor_agent.py, HypervisorAgent._initialize_providers
_initialize_providers ==
  [ aws |-> [ name |-> "Amazon Web Services",
              services |-> << "EC2",
                              "VPC",
                              "S3",
                              "Lambda",
                              "ECS",
                              "EKS",
                              "RDS",
                              "CloudFormation" >>,
              iac_tools |-> << "CloudFormation", "CDK", "Terraform" >>,
              cli_tools |-> << "aws-cli", "eksctl", "kubectl" >>,
              sdks |-> << "boto3",
                          "aws-sdk-js",
                          "aws-sdk-go",
                          "aws-sdk-java" >> ],
    azure |-> [ name |-> "Microsoft Azure",
                services |-> << "VM",
                                "VNet",
                                "Storage",
                                "Functions",
                                "ACI",
                                "AKS",
                                "SQL Database",
                                "ARM" >>,
                iac_tools |-> << "ARM Templates", "Bicep", "Terraform" >>,
                cli_tools |-> << "az-cli", "kubectl" >>,
                sdks |-> << "azure-sdk-python",
                            "azure-sdk-js",
                            "azure-sdk-go",
                            "azure-sdk-java" >> ],
    gcp |-> [ name |-> "Google Cloud Platform",
              services |-> << "Compute Engine",
                              "VPC",
                              "Cloud Storage",
                              "Cloud Functions",
                              "GKE",
                              "Cloud SQL" >>,
              iac_tools |-> << "Deployment Manager", "Terraform" >>,
              cli_tools |-> << "gcloud", "kubectl" >>,
              sdks |-> << "google-cloud-python",
                          "google-cloud-js",
                          "google-cloud-go",
                          "google-cloud-java" >> ] ]

\* hypervisor_agent.py, HypervisorAgent._initialize_hypervisors
_initialize_hypervisors ==
  ("vmware" :> [ products |-> << "vSphere",
                                   "ESXi",
                                   "vCenter",
                                   "NSX",
                                   "vSAN" >>,
                   apis |-> << "vSphere API", "REST API", "PowerCLI" >>,
                   tools |-> << "PowerCLI", "vSphere Client", "govc" >> ])
  @@ ("hyper-v" :> [ products |-> << "Hyper-V",
                                    "System Center VMM",
                                    "Windows Admin Center" >>,
                    apis |-> << "Hyper-V PowerShell", "WMI", "REST API" >>,
                    tools |-> << "PowerShell", "Hyper-V Manager", "SCVMM" >> ])
  @@ ("kvm" :> [ products |-> << "KVM", "QEMU", "libvirt" >>,
                apis |-> << "libvirt API", "QEMU Monitor" >>,
                tools |-> << "virsh", "virt-manager", "qemu-img" >> ])

\* hypervisor_agent.py, HypervisorAgent.__init__
HypervisorAgent ==
  [ cloud_providers |-> _initialize_providers,
    hypervisors |-> _initialize_hypervisors ]

\* Mutant of AWSHelper: the services dictionary lacks 'monitoring'.
AWSHelper_without_monitoring ==
  [ services |->
      [ compute |-> << "EC2", "Lambda", "ECS", "EKS", "Batch" >>,
        storage |-> << "S3", "EBS", "EFS", "FSx" >>,
        database |-> << "RDS", "DynamoDB", "ElastiCache", "DocumentDB" >>,
        networking |-> << "VPC", "CloudFront", "Route53", "ALB", "NLB" >>,
        security |-> << "IAM", "Cognito", "Secrets Manager", "KMS" >> ] ]

\* aws_helper.py, AWSHelper.__init__
AWSHelper ==
  [ services |->
      [ compute |-> << "EC2", "Lambda", "ECS", "EKS", "Batch" >>,
        storage |-> << "S3", "EBS", "EFS", "FSx" >>,
        database |-> << "RDS", "DynamoDB", "ElastiCache", "DocumentDB" >>,
        networking |-> << "VPC", "CloudFront", "Route53", "ALB", "NLB" >>,
        security |-> << "IAM", "Cognito", "Secrets Manager", "KMS" >>,
        monitoring |-> << "CloudWatch", "X-Ray", "CloudTrail" >> ] ]

\* azure_helper.py, AzureHelper.__init__
AzureHelper ==
  [ services |->
      [ compute |-> << "Virtual Machines",
                       "Container Instances",
                       "AKS",
                       "Functions",
                       "Batch" >>,
        storage |-> << "Storage Accounts",
                       "Blob Storage",
                       "File Storage",
                       "Disk Storage" >>,
        database |-> << "SQL Database",
                        "Cosmos DB",
                        "Database for MySQL",
                        "Database for PostgreSQL" >>,
        networking |-> << "Virtual Network",
                          "Load Balancer",
                          "Application Gateway",
                          "Traffic Manager" >>,
        security |-> << "Active Directory",
                        "Key Vault",
                        "Security Center",
                        "Sentinel" >>,
        monitoring |-> << "Monitor",
                          "Application Insights",
                          "Log Analytics" >> ] ]

\* gcp_helper.py, GCPHelper.__init__
GCPHelper ==
  [ services |->
      [ compute |-> << "Compute Engine",
                       "Container Engine",
                       "App Engine",
                       "Cloud Functions",
                       "Cloud Run" >>,
        storage |-> << "Cloud Storage",
                       "Persistent Disk",
                       "Filestore",
                       "Cloud SQL" >>,
        database |-> << "Cloud SQL",
                        "Firestore",
                        "Bigtable",
                        "Spanner",
                        "Memorystore" >>,
        networking |-> << "VPC",
                          "Cloud Load Balancing",
                          "Cloud CDN",
                          "Cloud DNS",
                          "Cloud NAT" >>,
        security |-> << "Identity and Access Management",
                        "Cloud KMS",
                        "Security Command Center",
                        "Certificate Authority" >>,
        monitoring |-> << "Cloud Monitoring",
                          "Cloud Logging",
                          "Cloud Trace",
                          "Cloud Profiler" >> ] ]

\* aws_helper.py, get_service_recommendations: recommendations
aws_recommendations ==
  [ web_application |-> << "Use EC2 or ECS for compute",
                           "Use ALB for load balancing",
                           "Use RDS for relational database",
                           "Use S3 for static assets",
                           "Use CloudFront for CDN" >>,
    api_backend |-> << "Use Lambda for serverless functions",
                       "Use API Gateway for REST APIs",
                       "Use DynamoDB for NoSQL database",
                       "Use Cognito for authentication",
                       "Use CloudWatch for monitoring" >>,
    data_processing |-> << "Use EMR for big data processing",
                           "Use Glue for ETL jobs",
                           "Use Kinesis for streaming data",
                           "Use S3 for data lake storage",
                           "Use Athena for analytics" >>,
    machine_learning |-> << "Use SageMaker for ML workflows",
                            "Use S3 for training data storage",
                            "Use Lambda for inference endpoints",
                            "Use Batch for training jobs",
                            "Use CloudWatch for model monitoring" >> ]

\* aws_helper.py, get_service_recommendations: the default of recommendations.get
aws_fallback ==
  << "Define your requirements more specifically",
     "Consider AWS Well-Architected Framework principles",
     "Start with basic services and expand as needed" >>

\* azure_helper.py, get_service_recommendations: recommendations
azure_recommendations ==
  [ web_application |-> << "Use App Service for web hosting",
                           "Use Application Gateway for load balancing",
                           "Use Azure SQL Database for relational data",
                           "Use Storage Account for static files",
                           "Use CDN for global content delivery" >>,
    api_backend |-> << "Use Azure Functions for serverless APIs",
                       "Use API Management for API gateway",
                       "Use Cosmos DB for NoSQL database",
                       "Use Active Directory B2C for authentication",
                       "Use Application Insights for monitoring" >>,
    data_processing |-> << "Use HDInsight for big data processing",
                           "Use Data Factory for ETL pipelines",
                           "Use Event Hubs for streaming data",
                           "Use Data Lake Storage for data lake",
                           "Use Synapse Analytics for data warehousing" >>,
    machine_learning |-> << "Use Machine Learning service for ML workflows",
                            "Use Cognitive Services for pre-built AI",
                            "Use Container Instances for model serving",
                            "Use Batch for training workloads",
                            "Use Monitor for model performance tracking" >> ]

\* azure_helper.py, get_service_recommendations: the default of recommendations.get
azure_fallback ==
  << "Define your requirements more specifically",
     "Consider Azure Architecture Center patterns",
     "Start with basic services and expand as needed" >>

\* gcp_helper.py, get_service_recommendations: recommendations
gcp_recommendations ==
  [ web_application |-> << "Use App Engine for fully managed web hosting",
                           "Use Cloud Load Balancing for traffic distribution",
                           "Use Cloud SQL for relational database",
                           "Use Cloud Storage for static assets",
                           "Use Cloud CDN for global content delivery" >>,
    api_backend |-> << "Use Cloud Functions for serverless APIs",
                       "Use API Gateway for API management",
                       "Use Firestore for NoSQL database",
                       "Use Identity and Access Management for authentication",
                       "Use Cloud Monitoring for observability" >>,
    data_processing |-> << "Use Dataflow for stream and batch processing",
                           "Use Dataprep for data preparation",
                           "Use Pub/Sub for messaging and event streaming",
                           "Use BigQuery for data warehousing",
                           "Use Cloud Storage for data lake" >>,
    machine_learning |-> << "Use Vertex AI for ML platform",
                            "Use AutoML for no-code ML models",
                            "Use Cloud Functions for model serving",
                            "Use AI Platform for custom training",
                            "Use Cloud Monitoring for ML monitoring" >>,
    container_workloads |-> << "Use Google Kubernetes Engine (GKE)",
                               "Use Cloud Run for containerized apps",
                               "Use Artifact Registry for container images",
                               "Use Cloud Build for CI/CD",
                               "Use Cloud Monitoring for container monitoring" >> ]

\* gcp_helper.py, get_service_recommendations: the default of recommendations.get
gcp_fallback ==
  << "Define your requirements more specifically",
     "Consider Google Cloud Architecture Framework",
     "Start with basic services and expand as needed" >>

\* simple_app.py, recommendations: recs
simple_recs ==
  [ web_application |-> [ aws |-> << "Use EC2 for compute",
                                     "Use ALB for load balancing",
                                     "Use RDS for database" >>,
                          azure |-> << "Use App Service for hosting",
                                       "Use Application Gateway",
                                       "Use SQL Database" >>,
                          gcp |-> << "Use App Engine",
                                     "Use Cloud Load Balancing",
                                     "Use Cloud SQL" >> ],
    api_backend |-> [ aws |-> << "Use Lambda for serverless",
                                 "Use API Gateway",
                                 "Use DynamoDB" >>,
                      azure |-> << "Use Functions",
                                   "Use API Management",
                                   "Use Cosmos DB" >>,
                      gcp |-> << "Use Cloud Functions",
                                 "Use API Gateway",
                                 "Use Firestore" >> ] ]

\* hypervisor_agent.py, HypervisorAgent.get_help_categories
get_help_categories ==
  << "Infrastructure as Code",
     "Virtual Machine Management",
     "Container Orchestration",
     "Network Configuration",
     "Storage Management",
     "Security and Compliance",
     "Monitoring and Logging",
     "Cost Optimization",
     "Migration Strategies" >>
----------------------------------------------------------------------------
(* hypervisor_agent.py: the query classifier.                              *)

\* _get_terraform_example: the dictionary `examples`
terraform_examples ==
  [ aws |-> terraform_example_aws,
    azure |-> terraform_example_azure,
    gcp |-> terraform_example_gcp ]

\* Mutant of _get_terraform_example: the provider is ignored, the aws example
\* is returned for every provider.
_get_terraform_example_always_aws(provider) ==
  dict_index(terraform_examples, aws)

\* Mutant of _get_terraform_example: examples[provider] in place of
\* examples.get(provider, examples['aws']).
_get_terraform_example_index(provider) ==
  dict_index(terraform_examples, provider)

\* Mutant of _get_terraform_example: the default is examples['azure'].
_get_terraform_example_default_azure(provider) ==
  LET examples == terraform_examples
      default == dict_index(examples, azure)
  IN  IF default.kind = "raise"
      THEN default
      ELSE Return(dict_get(examples, provider, default.value))

\* examples.get(provider, examples['aws']): the default is evaluated first
_get_terraform_example(provider) ==
  LET examples == terraform_examples
      default == dict_index(examples, aws)
  IN  IF default.kind = "raise"
      THEN default
      ELSE Return(dict_get(examples, provider, default.value))

\* Mutant of _get_k8s_example: the manifest is marked with the provider it
\* was asked for.
_get_k8s_example_of_provider(provider) ==
  IF provider = None
  THEN Return(k8s_example)
  ELSE Return("# " \o text(provider) \o "\n" \o k8s_example)

\* the provider is not read
_get_k8s_example(provider) == Return(k8s_example)

\* Mutant of suggest_solution: the kubernetes check comes first.
suggest_solution_kubernetes_first(query, provider) ==
  LET suggestions ==
        [ query |-> query,
          provider |-> provider,
          recommendations |-> <<>>,
          code_examples |-> <<>>,
          best_practices |-> <<>> ]
      after_kubernetes ==
        IF contains(kubernetes, lower(query))
        THEN [suggestions EXCEPT
               !.recommendations =
                 Append(@, "Consider managed Kubernetes services"),
               !.code_examples = Append(@, k8s_example)]
        ELSE suggestions
  IN  IF contains(terraform, lower(query))
      THEN Return([after_kubernetes EXCEPT
             !.recommendations =
               Append(@, "Use Terraform for infrastructure as code"),
             !.code_examples =
               Append(@, dict_get(terraform_examples, provider,
                                  terraform_example_aws))])
      ELSE Return(after_kubernetes)

\* Mutant of suggest_solution: the kubernetes block is not under its `if`,
\* so it runs for every query.
suggest_solution_unconditional_kubernetes(query, provider) ==
  LET suggestions ==
        [ query |-> query,
          provider |-> provider,
          recommendations |-> <<>>,
          code_examples |-> <<>>,
          best_practices |-> <<>> ]
      after_terraform ==
        IF contains(terraform, lower(query))
        THEN [suggestions EXCEPT
               !.recommendations =
                 Append(@, "Use Terraform for infrastructure as code"),
               !.code_examples =
                 Append(@, dict_get(terraform_examples, provider,
                                    terraform_example_aws))]
        ELSE suggestions
  IN  Return([after_terraform EXCEPT
        !.recommendations = Append(@, "Consider managed Kubernetes services"),
        !.code_examples = Append(@, k8s_example)])

\* Mutant of suggest_solution: the query is validated first, a query that is
\* empty after strip() raises ValueError.
suggest_solution_validating(query, provider) ==
  IF strip(query) = <<>>
  THEN Raise("ValueError")
  ELSE LET suggestions ==
             [ query |-> query,
               provider |-> provider,
               recommendations |-> <<>>,
               code_examples |-> <<>>,
               best_practices |-> <<>> ]
           after_terraform ==
             IF contains(terraform, lower(query))
             THEN [suggestions EXCEPT
                    !.recommendations =
                      Append(@, "Use Terraform for infrastructure as code"),
                    !.code_examples =
                      Append(@, dict_get(terraform_examples, provider,
                                         terraform_example_aws))]
             ELSE suggestions
       IN  IF contains(kubernetes, lower(query))
           THEN Return([after_terraform EXCEPT
                  !.recommendations =
                    Append(@, "Consider managed Kubernetes services"),
                  !.code_examples = Append(@, k8s_example)])
           ELSE Return(after_terraform)

\* Mutant of suggest_solution: the result carries the provider whose examples
\* were used, aws when the argument is no key of the examples.
suggest_solution_resolving(query, provider) ==
  LET suggestions ==
        [ query |-> query,
          provider |-> IF has_key(terraform_examples, provider)
                       THEN provider ELSE aws,
          recommendations |-> <<>>,
          code_examples |-> <<>>,
          best_practices |-> <<>> ]
      after_terraform ==
        IF contains(terraform, lower(query))
        THEN [suggestions EXCEPT
                !.recommendations =
                  Append(@, "Use Terraform for infrastructure as code"),
                !.code_examples =
                  Append(@, dict_get(terraform_examples, provider,
                                     terraform_example_aws))]
        ELSE suggestions
  IN  IF contains(kubernetes, lower(query))
      THEN Return([after_terraform EXCEPT
                     !.recommendations =
                       Append(@, "Consider managed Kubernetes services"),
                     !.code_examples = Append(@, k8s_example)])
      ELSE Return(after_terraform)

\* Mutant of suggest_solution: the keywords are looked for in the query as
\* given, without lower().
suggest_solution_case_sensitive(query, provider) ==
  LET suggestions ==
        [ query |-> query,
          provider |-> provider,
          recommendations |-> <<>>,
          code_examples |-> <<>>,
          best_practices |-> <<>> ]
      after_terraform ==
        IF contains(terraform, query)
        THEN LET example == _get_terraform_example(provider)
             IN  IF example.kind = "raise"
                 THEN example
                 ELSE Return([suggestions EXCEPT
                        !.recommendations =
                          Append(@, "Use Terraform for infrastructure as code"),
                        !.code_examples = Append(@, example.value)])
        ELSE Return(suggestions)
  IN  IF after_terraform.kind = "raise"
      THEN after_terraform
      ELSE IF contains(kubernetes, query)
           THEN LET example == _get_k8s_example(provider)
                IN  IF example.kind = "raise"
                    THEN example
                    ELSE Return([after_terraform.value EXCEPT
                           !.recommendations =
                             Append(@, "Consider managed Kubernetes services"),
                           !.code_examples = Append(@, example.value)])
           ELSE after_terraform

\* Mutant of suggest_solution: the kubernetes branch appends the
\* recommendation and no code example.
suggest_solution_recommendation_only(query, provider) ==
  LET suggestions ==
        [ query |-> query,
          provider |-> provider,
          recommendations |-> <<>>,
          code_examples |-> <<>>,
          best_practices |-> <<>> ]
      after_terraform ==
        IF contains(terraform, lower(query))
        THEN LET example == _get_terraform_example(provider)
             IN  IF example.kind = "raise"
                 THEN example
                 ELSE Return([suggestions EXCEPT
                        !.recommendations =
                          Append(@, "Use Terraform for infrastructure as code"),
                        !.code_examples = Append(@, example.value)])
        ELSE Return(suggestions)
  IN  IF after_terraform.kind = "raise"
      THEN after_terraform
      ELSE IF contains(kubernetes, lower(query))
           THEN LET example == _get_k8s_example(provider)
                IN  IF example.kind = "raise"
                    THEN example
                    ELSE Return([after_terraform.value EXCEPT
                           !.recommendations =
                             Append(@, "Consider managed Kubernetes services")])
           ELSE after_terraform

\* suggest_solution(query, provider): the dictionary it returns, or the
\* exception that leaves it
suggest_solution(query, provider) ==
  LET suggestions ==
        [ query |-> query,
          provider |-> provider,
          recommendations |-> <<>>,
          code_examples |-> <<>>,
          best_practices |-> <<>> ]
      after_terraform ==
        IF contains(terraform, lower(query))
        THEN LET example == _get_terraform_example(provider)
             IN  IF example.kind = "raise"
                 THEN example
                 ELSE Return([suggestions EXCEPT
                        !.recommendations =
                          Append(@, "Use Terraform for infrastructure as code"),
                        !.code_examples = Append(@, example.value)])
        ELSE Return(suggestions)
  IN  IF after_terraform.kind = "raise"
      THEN after_terraform
      ELSE IF contains(kubernetes, lower(query))
           THEN LET example == _get_k8s_example(provider)
                IN  IF example.kind = "raise"
                    THEN example
                    ELSE Return([after_terraform.value EXCEPT
                           !.recommendations =
                             Append(@, "Consider managed Kubernetes services"),
                           !.code_examples = Append(@, example.value)])
           ELSE after_terraform

----------------------------------------------------------------------------
(* The provider helpers: snippet lookup and recommendations.               *)

\* {}: the empty dictionary
EmptyDict == <<>>

\* Mutant of not_available: the placeholder without the leading "# ".
not_available_plain(service, operation) ==
  "Example for " \o format(service) \o " " \o format(operation)
    \o " not available"

\* f"# Example for {service} {operation} not available"
not_available(service, operation) ==
  "# Example for " \o format(service) \o " " \o format(operation)
    \o " not available"

\* aws_helper.py, generate_boto3_example: examples
boto3_examples ==
  [ ec2 |-> [ list_instances |-> boto3_ec2_list_instances,
              create_instance |-> boto3_ec2_create_instance ],
    s3 |-> [ upload_file |-> boto3_s3_upload_file,
             list_objects |-> boto3_s3_list_objects ] ]

generate_boto3_example(service, operation) ==
  dict_get(dict_get(boto3_examples, service, EmptyDict), operation,
           not_available(service, operation))

\* azure_helper.py, generate_azure_sdk_example: examples
azure_sdk_examples ==
  [ compute |-> [ list_vms |-> azure_sdk_compute_list_vms,
                  create_vm |-> azure_sdk_compute_create_vm ],
    storage |-> [ upload_blob |-> azure_sdk_storage_upload_blob,
                  list_blobs |-> azure_sdk_storage_list_blobs ] ]

generate_azure_sdk_example(service, operation) ==
  dict_get(dict_get(azure_sdk_examples, service, EmptyDict), operation,
           not_available(service, operation))

\* gcp_helper.py, generate_gcp_sdk_example: examples
gcp_sdk_examples ==
  [ compute |-> [ list_instances |-> gcp_sdk_compute_list_instances,
                  create_instance |-> gcp_sdk_compute_create_instance ],
    storage |-> [ upload_blob |-> gcp_sdk_storage_upload_blob,
                  list_blobs |-> gcp_sdk_storage_list_blobs,
                  download_blob |-> gcp_sdk_storage_download_blob ] ]

generate_gcp_sdk_example(service, operation) ==
  dict_get(dict_get(gcp_sdk_examples, service, EmptyDict), operation,
           not_available(service, operation))

\* Mutant of aws_get_service_recommendations: recommendations.get(use_case, [])
aws_get_service_recommendations_empty_default(use_case) ==
  dict_get(aws_recommendations, use_case, <<>>)

\* AWSHelper.get_service_recommendations
aws_get_service_recommendations(use_case) ==
  dict_get(aws_recommendations, use_case, aws_fallback)

\* AzureHelper.get_service_recommendations
azure_get_service_recommendations(use_case) ==
  dict_get(azure_recommendations, use_case, azure_fallback)

\* Mutant of gcp_get_service_recommendations: the one-string fallback of
\* simple_app.py in place of the helper's three strings.
gcp_get_service_recommendations_short_fallback(use_case) ==
  dict_get(gcp_recommendations, use_case,
           << "Define requirements more specifically" >>)

\* GCPHelper.get_service_recommendations
gcp_get_service_recommendations(use_case) ==
  dict_get(gcp_recommendations, use_case, gcp_fallback)

----------------------------------------------------------------------------
(* The request handlers.  A handler yields the response and the methods of *)
(* the agent and the helpers it called.                                    *)

\* jsonify(body)
jsonify(body) == [kind |-> "json", body |-> body]

\* render_template(name, ...)
render_template(name) == [kind |-> "html", template |-> name]

Handled(resp, called) == [response |-> resp, calls |-> called]

\* request.form.get(key, default); request.form.get(key) has default None
form_get(form, key, default) ==
  IF key \in DOMAIN form THEN form[key] ELSE default

\* Mutant of app_query_agent: the query field is tested without strip().
app_query_agent_no_strip(method, form) ==
  IF method = "GET"
  THEN Handled(render_template("query.html"), <<>>)
  ELSE LET query == form_get(form, "query", <<>>)
           provider == strip(form_get(form, "provider", <<>>))
       IN  IF ~truthy(query)
           THEN Handled(jsonify([error |-> "Please enter a query"]), <<>>)
           ELSE LET result ==
                      suggest_solution(query,
                                       IF provider # auto THEN provider ELSE None)
                IN  Handled(
                      jsonify([ success |-> TRUE,
                                query |-> result.value.query,
                                provider |->
                                  IF truthy(result.value.provider)
                                  THEN result.value.provider
                                  ELSE General,
                                recommendations |->
                                  result.value.recommendations,
                                code_examples |->
                                  result.value.code_examples ]),
                      <<"suggest_solution">>)

\* Mutant of app_query_agent: 'auto' is passed on as a provider.
app_query_agent_auto_is_a_provider(method, form) ==
  IF method = "GET"
  THEN Handled(render_template("query.html"), <<>>)
  ELSE LET query == strip(form_get(form, "query", <<>>))
           provider == strip(form_get(form, "provider", <<>>))
       IN  IF ~truthy(query)
           THEN Handled(jsonify([error |-> "Please enter a query"]), <<>>)
           ELSE LET result ==
                      suggest_solution(query,
                                       provider)
                IN  IF result.kind = "raise"
                    THEN Handled(jsonify([ error |-> result.exc,
                                           traceback |-> "traceback" ]),
                                 <<"suggest_solution">>)
                    ELSE Handled(
                           jsonify([ success |-> TRUE,
                                     query |-> result.value.query,
                                     provider |->
                                       IF truthy(result.value.provider)
                                       THEN result.value.provider
                                       ELSE General,
                                     recommendations |->
                                       result.value.recommendations,
                                     code_examples |->
                                       result.value.code_examples ]),
                           <<"suggest_solution">>)

\* app.py, query_agent
app_query_agent(method, form) ==
  IF method = "GET"
  THEN Handled(render_template("query.html"), <<>>)
  ELSE LET query == strip(form_get(form, "query", <<>>))
           provider == strip(form_get(form, "provider", <<>>))
       IN  IF ~truthy(query)
           THEN Handled(jsonify([error |-> "Please enter a query"]), <<>>)
           ELSE LET result ==
                      suggest_solution(query,
                                       IF provider # auto THEN provider ELSE None)
                IN  IF result.kind = "raise"
                    THEN Handled(jsonify([ error |-> result.exc,
                                           traceback |-> "traceback" ]),
                                 <<"suggest_solution">>)
                    ELSE Handled(
                           jsonify([ success |-> TRUE,
                                     query |-> result.value.query,
                                     provider |->
                                       IF truthy(result.value.provider)
                                       THEN result.value.provider
                                       ELSE General,
                                     recommendations |->
                                       result.value.recommendations,
                                     code_examples |->
                                       result.value.code_examples ]),
                           <<"suggest_solution">>)

\* simple_app.py, query_agent
simple_query_agent(method, form) ==
  IF method = "GET"
  THEN Handled(render_template("query.html"), <<>>)
  ELSE LET query == strip(form_get(form, "query", <<>>))
           provider == strip(form_get(form, "provider", <<>>))
       IN  IF ~truthy(query)
           THEN Handled(jsonify([error |-> "Please enter a query"]), <<>>)
           ELSE LET result ==
                      suggest_solution(query,
                                       IF provider # auto THEN provider ELSE None)
                IN  IF result.kind = "raise"
                    THEN Handled(jsonify([ error |-> result.exc,
                                           traceback |-> "traceback" ]),
                                 <<"suggest_solution">>)
                    ELSE Handled(
                           jsonify([ success |-> TRUE,
                                     query |-> result.value.query,
                                     provider |->
                                       IF truthy(result.value.provider)
                                       THEN result.value.provider
                                       ELSE General,
                                     recommendations |->
                                       result.value.recommendations,
                                     code_examples |->
                                       result.value.code_examples ]),
                           <<"suggest_solution">>)

\* Mutant of app_generate_sdk: a provider other than aws, azure and gcp is
\* answered with an error.
app_generate_sdk_rejecting(form) ==
  LET provider == form_get(form, "provider", None)
      service == form_get(form, "service", None)
      operation == form_get(form, "operation", None)
  IN  IF provider = aws
      THEN Handled(jsonify([ success |-> TRUE,
                             code |-> generate_boto3_example(service, operation),
                             provider |-> provider,
                             service |-> service,
                             operation |-> operation ]),
                   <<"aws_helper.generate_boto3_example">>)
      ELSE IF provider = azure
      THEN Handled(jsonify([ success |-> TRUE,
                             code |->
                               generate_azure_sdk_example(service, operation),
                             provider |-> provider,
                             service |-> service,
                             operation |-> operation ]),
                   <<"azure_helper.generate_azure_sdk_example">>)
      ELSE IF provider = gcp
      THEN Handled(jsonify([ success |-> TRUE,
                             code |-> generate_gcp_sdk_example(service, operation),
                             provider |-> provider,
                             service |-> service,
                             operation |-> operation ]),
                   <<"gcp_helper.generate_gcp_sdk_example">>)
      ELSE Handled(jsonify([error |-> "Unsupported provider"]), <<>>)

\* app.py, generate_sdk
app_generate_sdk(form) ==
  LET provider == form_get(form, "provider", None)
      service == form_get(form, "service", None)
      operation == form_get(form, "operation", None)
      code ==
        IF provider = aws THEN generate_boto3_example(service, operation)
        ELSE IF provider = azure
             THEN generate_azure_sdk_example(service, operation)
        ELSE IF provider = gcp
             THEN generate_gcp_sdk_example(service, operation)
        ELSE "# Unsupported provider"
      called ==
        IF provider = aws THEN <<"aws_helper.generate_boto3_example">>
        ELSE IF provider = azure
             THEN <<"azure_helper.generate_azure_sdk_example">>
        ELSE IF provider = gcp
             THEN <<"gcp_helper.generate_gcp_sdk_example">>
        ELSE <<>>
  IN  Handled(jsonify([ success |-> TRUE,
                        code |-> code,
                        provider |-> provider,
                        service |-> service,
                        operation |-> operation ]),
              called)

\* simple_app.py, generate_sdk: examples
simple_sdk_examples ==
  [ aws |-> [ ec2 |-> [ list_instances |-> simple_sdk_ec2_list_instances,
                        create_instance |-> simple_sdk_ec2_create_instance ],
              s3 |-> [ upload_file |-> simple_sdk_s3_upload_file,
                       list_objects |-> simple_sdk_s3_list_objects ] ] ]

\* simple_app.py, generate_sdk
simple_generate_sdk(form) ==
  LET provider == form_get(form, "provider", None)
      service == form_get(form, "service", None)
      operation == form_get(form, "operation", None)
      code ==
        dict_get(dict_get(dict_get(simple_sdk_examples, provider, EmptyDict),
                          service, EmptyDict),
                 operation,
                 "# Example for " \o format(provider) \o " " \o format(service)
                   \o " " \o format(operation) \o " not available")
  IN  Handled(jsonify([ success |-> TRUE,
                        code |-> code,
                        provider |-> provider,
                        service |-> service,
                        operation |-> operation ]),
              <<>>)

\* app.py, recommendations
app_recommendations(use_case) ==
  LET aws_recs == aws_get_service_recommendations(use_case)
      azure_recs == azure_get_service_recommendations(use_case)
      gcp_recs == gcp_get_service_recommendations(use_case)
  IN  Handled(jsonify([ use_case |-> use_case,
                        aws |-> aws_recs,
                        azure |-> azure_recs,
                        gcp |-> gcp_recs ]),
              << "aws_helper.get_service_recommendations",
                 "azure_helper.get_service_recommendations",
                 "gcp_helper.get_service_recommendations" >>)

\* simple_app.py, recommendations: the default of recs.get
simple_recs_fallback ==
  [ aws |-> << "Define requirements more specifically" >>,
    azure |-> << "Define requirements more specifically" >>,
    gcp |-> << "Define requirements more specifically" >> ]

\* Mutant of simple_recommendations: recs.get(use_case, {}), no fallback.
simple_recommendations_no_fallback(use_case) ==
  LET result == dict_get(simple_recs, use_case, EmptyDict)
  IN  Handled(jsonify([ use_case |-> use_case,
                        aws |-> dict_get(result, aws, <<>>),
                        azure |-> dict_get(result, azure, <<>>),
                        gcp |-> dict_get(result, gcp, <<>>) ]),
              <<>>)

\* simple_app.py, recommendations
simple_recommendations(use_case) ==
  LET result == dict_get(simple_recs, use_case, simple_recs_fallback)
  IN  Handled(jsonify([ use_case |-> use_case,
                        aws |-> dict_get(result, aws, <<>>),
                        azure |-> dict_get(result, azure, <<>>),
                        gcp |-> dict_get(result, gcp, <<>>) ]),
              <<>>)


----------------------------------------------------------------------------
(* The generators: a config dictionary in, formatted text out.             *)

\* aws_helper.py, generate_terraform_ec2: template, as str.format reads it:
\* literal text ({{ and }} read as one brace) followed by a replacement
\* field; the leading whitespace is a piece of its own
ec2_template ==
  << [literal |-> "\n", has_field |-> FALSE, field |-> ""],
     [literal |-> "# AWS EC2 Instance Configuration\nresource \"aws_instance\" \"", has_field |-> TRUE, field |-> "name"],
     [literal |-> "\" {", has_field |-> FALSE, field |-> ""],
     [literal |-> "\n  ami           = \"", has_field |-> TRUE, field |-> "ami"],
     [literal |-> "\"\n  instance_type = \"", has_field |-> TRUE, field |-> "instance_type"],
     [literal |-> "\"\n  key_name      = \"", has_field |-> TRUE, field |-> "key_name"],
     [literal |-> "\"\n  \n  vpc_security_group_ids = [aws_security_group.", has_field |-> TRUE, field |-> "name"],
     [literal |-> "_sg.id]\n  subnet_id              = \"", has_field |-> TRUE, field |-> "subnet_id"],
     [literal |-> "\"\n  \n  tags = {", has_field |-> FALSE, field |-> ""],
     [literal |-> "\n    Name        = \"", has_field |-> TRUE, field |-> "display_name"],
     [literal |-> "\"\n    Environment = \"", has_field |-> TRUE, field |-> "environment"],
     [literal |-> "\"\n  }", has_field |-> FALSE, field |-> ""],
     [literal |-> "\n  \n  user_data = <<-EOF\n    #!/bin/bash\n    yum update -y\n    ", has_field |-> TRUE, field |-> "user_data"],
     [literal |-> "\n  EOF\n}", has_field |-> FALSE, field |-> ""],
     [literal |-> "\n\n# Security Group for EC2\nresource \"aws_security_group\" \"", has_field |-> TRUE, field |-> "name"],
     [literal |-> "_sg\" {", has_field |-> FALSE, field |-> ""],
     [literal |-> "\n  name        = \"", has_field |-> TRUE, field |-> "name"],
     [literal |-> "-sg\"\n  description = \"Security group for ", has_field |-> TRUE, field |-> "display_name"],
     [literal |-> "\"\n  vpc_id      = \"", has_field |-> TRUE, field |-> "vpc_id"],
     [literal |-> "\"\n  \n  ingress {", has_field |-> FALSE, field |-> ""],
     [literal |-> "\n    from_port   = 80\n    to_port     = 80\n    protocol    = \"tcp\"\n    cidr_blocks = [\"0.0.0.0/0\"]\n  }", has_field |-> FALSE, field |-> ""],
     [literal |-> "\n  \n  ingress {", has_field |-> FALSE, field |-> ""],
     [literal |-> "\n    from_port   = 443\n    to_port     = 443\n    protocol    = \"tcp\"\n    cidr_blocks = [\"0.0.0.0/0\"]\n  }", has_field |-> FALSE, field |-> ""],
     [literal |-> "\n  \n  ingress {", has_field |-> FALSE, field |-> ""],
     [literal |-> "\n    from_port   = 22\n    to_port     = 22\n    protocol    = \"tcp\"\n    cidr_blocks = [\"", has_field |-> TRUE, field |-> "ssh_cidr"],
     [literal |-> "\"]\n  }", has_field |-> FALSE, field |-> ""],
     [literal |-> "\n  \n  egress {", has_field |-> FALSE, field |-> ""],
     [literal |-> "\n    from_port   = 0\n    to_port     = 0\n    protocol    = \"-1\"\n    cidr_blocks = [\"0.0.0.0/0\"]\n  }", has_field |-> FALSE, field |-> ""],
     [literal |-> "\n  \n  tags = {", has_field |-> FALSE, field |-> ""],
     [literal |-> "\n    Name = \"", has_field |-> TRUE, field |-> "name"],
     [literal |-> "-sg\"\n  }", has_field |-> FALSE, field |-> ""],
     [literal |-> "\n}", has_field |-> FALSE, field |-> ""],
     [literal |-> "\n        ", has_field |-> FALSE, field |-> ""] >>

\* aws_helper.py, generate_lambda_function: the template of the python
\* branch, as str.format reads it; the braces of the dictionaries in the
\* generated code are not doubled and open replacement fields
lambda_python_template ==
  << [literal |-> "\nimport json\nimport boto3\nfrom typing import Dict, Any\n\ndef lambda_handler(event: Dict[str, Any], context: Any) -> Dict[str, Any]:\n    \"\"\"\n    AWS Lambda function: ", has_field |-> TRUE, field |-> "description"],
     [literal |-> "\n    \"\"\"\n    \n    # Initialize AWS clients if needed\n    # s3_client = boto3.client('s3')\n    # dynamodb = boto3.resource('dynamodb')\n    \n    try:\n        # Your business logic here\n        print(\"Event received: \" + json.dumps(event))\n        \n        response_body = ", has_field |-> TRUE, field |-> "\n            \"message\""],
     [literal |-> "\n        \n        return ", has_field |-> TRUE, field |-> "\n            \"statusCode\""],
     [literal |-> "\n        \n    except Exception as e:\n        print(\"Error: \" + str(e))\n        return ", has_field |-> TRUE, field |-> "\n            \"statusCode\""],
     [literal |-> "\n            ", has_field |-> FALSE, field |-> ""] >>

\* aws_helper.py, generate_lambda_function: the text of the node branch
lambda_node_text ==
  "\nconst AWS = require('aws-sdk');\n\nexports.handler = async (event, context) => {\n    console.log('Event received:', JSON.stringify(event));\n    \n    try {\n        // Initialize AWS services if needed\n        // const s3 = new AWS.S3();\n        // const dynamodb = new AWS.DynamoDB.DocumentClient();\n        \n        // Your business logic here\n        \n        const response = {\n            statusCode: 200,\n            headers: {\n                'Content-Type': 'application/json',\n                'Access-Control-Allow-Origin': '*'\n            },\n            body: JSON.stringify({\n                message: 'Function executed successfully',\n                input: event\n            })\n        };\n        \n        return response;\n        \n    } catch (error) {\n        console.error('Error:', error);\n        return {\n            statusCode: 500,\n            headers: {\n                'Content-Type': 'application/json'\n            },\n            body: JSON.stringify({ error: error.message })\n        };\n    }\n};\n            "

\* a str value and the value None, where a function may return either
str_value(s) == [type |-> "str", text |-> s]
NoneValue == [type |-> "NoneType"]

\* config.get(key, default), formatted: str.format writes str(value)
config_get(config, key, default) ==
  IF key \in DOMAIN config THEN format(config[key]) ELSE default

\* template.format(**kwargs): the literal pieces and the values of the fields,
\* in order; KeyError at a field that is no keyword
RECURSIVE str_format(_, _)
str_format(template, kwargs) ==
  IF template = <<>>
  THEN Return(<<>>)
  ELSE LET piece == Head(template)
       IN  IF piece.has_field /\ piece.field \notin DOMAIN kwargs
           THEN Raise("KeyError")
           ELSE LET rest == str_format(Tail(template), kwargs)
                IN  IF rest.kind = "raise"
                    THEN rest
                    ELSE Return(<<piece.literal>>
                                \o (IF piece.has_field
                                    THEN <<kwargs[piece.field]>> ELSE <<>>)
                                \o rest.value)

\* pieces of text that hold whitespace only
BlankPieces == {"", "\n", "\n        "}

RECURSIVE lstrip_pieces(_)
lstrip_pieces(pieces) ==
  IF pieces # <<>> /\ Head(pieces) \in BlankPieces
  THEN lstrip_pieces(Tail(pieces)) ELSE pieces

RECURSIVE rstrip_pieces(_)
rstrip_pieces(pieces) ==
  IF pieces # <<>> /\ pieces[Len(pieces)] \in BlankPieces
  THEN rstrip_pieces(SubSeq(pieces, 1, Len(pieces) - 1)) ELSE pieces

\* .strip() of a text given in pieces whose first and last non-blank pieces
\* begin and end with a character that is no whitespace
strip_pieces(pieces) == rstrip_pieces(lstrip_pieces(pieces))

\* the text made of the pieces
RECURSIVE join(_)
join(pieces) == IF pieces = <<>> THEN "" ELSE Head(pieces) \o join(Tail(pieces))

\* Mutant of generate_terraform_ec2: a missing display_name falls back to the
\* name.
generate_terraform_ec2_display_name_from_name(config) ==
  LET kwargs ==
        [ name |-> config_get(config, "name", "web_server"),
          ami |-> config_get(config, "ami", "ami-0c55b159cbfafe1d0"),
          instance_type |-> config_get(config, "instance_type", "t2.micro"),
          key_name |-> config_get(config, "key_name", "my-key-pair"),
          subnet_id |-> config_get(config, "subnet_id", "subnet-12345678"),
          display_name |->
            config_get(config, "display_name",
                       config_get(config, "name", "web_server")),
          environment |-> config_get(config, "environment", "production"),
          user_data |->
            config_get(config, "user_data", "# Add your startup scripts here"),
          vpc_id |-> config_get(config, "vpc_id", "vpc-12345678"),
          ssh_cidr |-> config_get(config, "ssh_cidr", "10.0.0.0/8") ]
      formatted == str_format(ec2_template, kwargs)
  IN  IF formatted.kind = "raise"
      THEN formatted
      ELSE Return(str_value(join(strip_pieces(formatted.value))))

\* aws_helper.py, AWSHelper.generate_terraform_ec2
generate_terraform_ec2(config) ==
  LET kwargs ==
        [ name |-> config_get(config, "name", "web_server"),
          ami |-> config_get(config, "ami", "ami-0c55b159cbfafe1d0"),
          instance_type |-> config_get(config, "instance_type", "t2.micro"),
          key_name |-> config_get(config, "key_name", "my-key-pair"),
          subnet_id |-> config_get(config, "subnet_id", "subnet-12345678"),
          display_name |-> config_get(config, "display_name", "Web Server"),
          environment |-> config_get(config, "environment", "production"),
          user_data |->
            config_get(config, "user_data", "# Add your startup scripts here"),
          vpc_id |-> config_get(config, "vpc_id", "vpc-12345678"),
          ssh_cidr |-> config_get(config, "ssh_cidr", "10.0.0.0/8") ]
      formatted == str_format(ec2_template, kwargs)
  IN  IF formatted.kind = "raise"
      THEN formatted
      ELSE Return(str_value(join(strip_pieces(formatted.value))))

\* s.startswith(prefix)
startswith(s, prefix) ==
  Len(s) >= Len(prefix) /\ SubSeq(s, 1, Len(prefix)) = prefix

python == <<"p", "y", "t", "h", "o", "n">>
node == <<"n", "o", "d", "e">>
nodejs == <<"n", "o", "d", "e", "j", "s">>
javascript == <<"j", "a", "v", "a", "s", "c", "r", "i", "p", "t">>
python3_9 == <<"p", "y", "t", "h", "o", "n", "3", ".", "9">>
python39 == <<"p", "y", "t", "h", "o", "n", "3", "9">>

\* aws_helper.py, AWSHelper.generate_lambda_function: no return statement is
\* reached when the runtime starts with neither 'python' nor 'node'
generate_lambda_function(config) ==
  LET runtime == IF "runtime" \in DOMAIN config THEN config.runtime ELSE python3_9
  IN  IF runtime = None
      THEN Raise("AttributeError")
      ELSE IF startswith(runtime, python)
      THEN LET formatted ==
                 str_format(lambda_python_template,
                            [ description |->
                                config_get(config, "description",
                                           "Generated Lambda function") ])
           IN  IF formatted.kind = "raise"
               THEN formatted
               ELSE Return(str_value(join(formatted.value)))
      ELSE IF startswith(runtime, node)
      THEN Return(str_value(lambda_node_text))
      ELSE Return(NoneValue)

\* azure_helper.py, generate_azure_function: the f-strings of the python
\* branch (lines 317-387) and of the javascript branch (lines 390-429).  The
\* braces of the generated code are not doubled, the first of them is an
\* empty replacement field: neither literal is an expression of the language
\* and neither has a value.
azure_function_python == Raise("SyntaxError")
azure_function_javascript == Raise("SyntaxError")

\* azure_helper.py, AzureHelper.generate_azure_function: no return statement
\* is reached when the runtime is neither 'python' nor 'javascript'
generate_azure_function(config) ==
  LET runtime == IF "runtime" \in DOMAIN config THEN config.runtime ELSE python
  IN  IF runtime = python
      THEN azure_function_python
      ELSE IF runtime = javascript
      THEN azure_function_javascript
      ELSE Return(NoneValue)

\* gcp_helper.py, generate_cloud_function: the f-strings of the python branch
\* (lines 204-277) and of the nodejs branch (lines 280-335), with braces that
\* are not doubled, as in azure_helper.py: neither has a value.
cloud_function_python == Raise("SyntaxError")
cloud_function_nodejs == Raise("SyntaxError")

\* gcp_helper.py, GCPHelper.generate_cloud_function: no return statement is
\* reached when the runtime starts with neither 'python' nor 'nodejs'
generate_cloud_function(config) ==
  LET runtime == IF "runtime" \in DOMAIN config THEN config.runtime ELSE python39
  IN  IF runtime = None
      THEN Raise("AttributeError")
      ELSE IF startswith(runtime, python)
      THEN cloud_function_python
      ELSE IF startswith(runtime, nodejs)
      THEN cloud_function_nodejs
      ELSE Return(NoneValue)

----------------------------------------------------------------------------
(* app.py: /generate_terraform, /api/search and the pages.                 *)

\* the characters of the texts that search_api lower-cases and searches
chars(s) ==
  CASE s = "Infrastructure as Code" ->
         <<"I", "n", "f", "r", "a", "s", "t", "r", "u", "c", "t", "u", "r", "e", " ", "a", "s", " ", "C", "o", "d", "e">>
    [] s = "Virtual Machine Management" ->
         <<"V", "i", "r", "t", "u", "a", "l", " ", "M", "a", "c", "h", "i", "n", "e", " ", "M", "a", "n", "a", "g", "e", "m", "e", "n", "t">>
    [] s = "Container Orchestration" ->
         <<"C", "o", "n", "t", "a", "i", "n", "e", "r", " ", "O", "r", "c", "h", "e", "s", "t", "r", "a", "t", "i", "o", "n">>
    [] s = "Network Configuration" ->
         <<"N", "e", "t", "w", "o", "r", "k", " ", "C", "o", "n", "f", "i", "g", "u", "r", "a", "t", "i", "o", "n">>
    [] s = "Storage Management" ->
         <<"S", "t", "o", "r", "a", "g", "e", " ", "M", "a", "n", "a", "g", "e", "m", "e", "n", "t">>
    [] s = "Security and Compliance" ->
         <<"S", "e", "c", "u", "r", "i", "t", "y", " ", "a", "n", "d", " ", "C", "o", "m", "p", "l", "i", "a", "n", "c", "e">>
    [] s = "Monitoring and Logging" ->
         <<"M", "o", "n", "i", "t", "o", "r", "i", "n", "g", " ", "a", "n", "d", " ", "L", "o", "g", "g", "i", "n", "g">>
    [] s = "Cost Optimization" ->
         <<"C", "o", "s", "t", " ", "O", "p", "t", "i", "m", "i", "z", "a", "t", "i", "o", "n">>
    [] s = "Migration Strategies" ->
         <<"M", "i", "g", "r", "a", "t", "i", "o", "n", " ", "S", "t", "r", "a", "t", "e", "g", "i", "e", "s">>
    [] s = "Amazon Web Services" ->
         <<"A", "m", "a", "z", "o", "n", " ", "W", "e", "b", " ", "S", "e", "r", "v", "i", "c", "e", "s">>
    [] s = "Microsoft Azure" ->
         <<"M", "i", "c", "r", "o", "s", "o", "f", "t", " ", "A", "z", "u", "r", "e">>
    [] s = "Google Cloud Platform" ->
         <<"G", "o", "o", "g", "l", "e", " ", "C", "l", "o", "u", "d", " ", "P", "l", "a", "t", "f", "o", "r", "m">>
    [] s = "aws" ->
         <<"a", "w", "s">>
    [] s = "azure" ->
         <<"a", "z", "u", "r", "e">>
    [] s = "gcp" ->
         <<"g", "c", "p">>

\* config.py, BEST_PRACTICES
BEST_PRACTICES ==
  [ security |->
      << "Use IAM roles instead of hardcoded credentials",
         "Enable encryption at rest and in transit",
         "Implement least privilege access principles",
         "Use secrets management services (AWS Secrets Manager, Azure Key Vault, GCP Secret Manager)",
         "Enable logging and monitoring for security events" >>,
    performance |->
      << "Choose appropriate instance types for workload",
         "Use auto-scaling groups for variable workloads",
         "Implement caching strategies",
         "Optimize network topology and routing",
         "Monitor resource utilization" >>,
    cost_optimization |->
      << "Use reserved instances for predictable workloads",
         "Implement lifecycle policies for storage",
         "Right-size instances based on actual usage",
         "Use spot instances for fault-tolerant workloads",
         "Implement cost monitoring and alerts" >>,
    reliability |->
      << "Design for multiple availability zones",
         "Implement health checks and monitoring",
         "Use infrastructure as code for consistency",
         "Plan for disaster recovery",
         "Implement automated backups" >> ]

\* hypervisor_agent.py, _initialize_providers: the keys, in the order of the
\* dictionary
provider_keys == << "aws", "azure", "gcp" >>

\* render_template(name, key=value, ...): the page and what it is given
render_page(name, context) ==
  [kind |-> "html", template |-> name, context |-> context]

\* app.py, index
index(self_agent) ==
  Handled(render_page("index.html",
                      [ cloud_providers |-> self_agent.cloud_providers,
                        help_categories |-> get_help_categories,
                        hypervisors |-> self_agent.hypervisors ]),
          <<"get_help_categories">>)

\* Mutant of aws_page: the page offers the five use cases of gcp_page.
aws_page_offering_containers(helper) ==
  Handled(render_page("aws.html",
                      [ services |-> helper.services,
                        use_cases |-> << "web_application", "api_backend",
                                         "data_processing", "machine_learning",
                                         "container_workloads" >> ]),
          <<>>)

\* app.py, aws_page
aws_page(helper) ==
  Handled(render_page("aws.html",
                      [ services |-> helper.services,
                        use_cases |-> << "web_application", "api_backend",
                                         "data_processing", "machine_learning" >> ]),
          <<>>)

\* app.py, azure_page
azure_page(helper) ==
  Handled(render_page("azure.html",
                      [ services |-> helper.services,
                        use_cases |-> << "web_application", "api_backend",
                                         "data_processing", "machine_learning" >> ]),
          <<>>)

\* app.py, gcp_page
gcp_page(helper) ==
  Handled(render_page("gcp.html",
                      [ services |-> helper.services,
                        use_cases |-> << "web_application", "api_backend",
                                         "data_processing", "machine_learning",
                                         "container_workloads" >> ]),
          <<>>)

\* app.py, terraform_page
terraform_page == Handled(render_template("terraform.html"), <<>>)

\* app.py, sdk_examples
sdk_examples == Handled(render_template("sdk_examples.html"), <<>>)

\* app.py, best_practices
best_practices ==
  Handled(render_page("best_practices.html", [practices |-> BEST_PRACTICES]),
          <<>>)

\* app.py, hypervisors
hypervisors(self_agent) ==
  Handled(render_page("hypervisors.html",
                      [hypervisors |-> self_agent.hypervisors]),
          <<>>)

\* gcp_helper.py, generate_terraform_compute: the f-string `template` (lines
\* 24-148).  Its braces are not doubled, so it is not an expression of the
\* language and has no value.
terraform_compute_template == Raise("SyntaxError")

\* gcp_helper.py, GCPHelper.generate_terraform_compute: template.strip()
generate_terraform_compute(config) == terraform_compute_template

\* app.py, generate_terraform: the f-string of the azure branch
azure_vm_simplified(config) ==
  "# Azure VM Terraform (simplified)\nresource \"azurerm_linux_virtual_machine\" \""
    \o config_get(config, "name", "example")
    \o "\" {\n  name                = \""
    \o config_get(config, "name", "example-vm")
    \o "\"\n  resource_group_name = \""
    \o config_get(config, "resource_group", "example-rg")
    \o "\"\n  location            = \""
    \o config_get(config, "location", "East US")
    \o "\"\n  size                = \""
    \o config_get(config, "vm_size", "Standard_B1s")
    \o "\"\n  admin_username      = \""
    \o config_get(config, "admin_username", "adminuser")
    \o "\"\n}"

ec2 == <<"e", "c", "2">>
vm == <<"v", "m">>
compute == <<"c", "o", "m", "p", "u", "t", "e">>

\* Mutant of app_generate_terraform: no try/except around the body, an
\* exception leaves the handler.
app_generate_terraform_uncaught(form) ==
  LET provider == form_get(form, "provider", None)
      resource_type == form_get(form, "resource_type", None)
      kept == { key \in DOMAIN form \ {"provider", "resource_type"} :
                  truthy(strip(form[key])) }
      config == [key \in kept |-> strip(form[key])]
      code ==
        IF provider = aws /\ resource_type = ec2
        THEN LET generated == generate_terraform_ec2(config)
             IN  IF generated.kind = "raise"
                 THEN generated ELSE Return(generated.value.text)
        ELSE IF provider = azure /\ resource_type = vm
        THEN Return(azure_vm_simplified(config))
        ELSE IF provider = gcp /\ resource_type = compute
        THEN generate_terraform_compute(config)
        ELSE Return("# Unsupported provider/resource combination")
      called ==
        IF provider = aws /\ resource_type = ec2
        THEN <<"aws_helper.generate_terraform_ec2">>
        ELSE IF provider = gcp /\ resource_type = compute
        THEN <<"gcp_helper.generate_terraform_compute">>
        ELSE <<>>
  IN  IF code.kind = "raise"
      THEN Handled(code, called)
      ELSE Handled(jsonify([ success |-> TRUE,
                             code |-> code.value,
                             provider |-> provider,
                             resource_type |-> resource_type ]),
                   called)

\* Mutant of app_generate_terraform: every other field goes into config,
\* stripped, a blank one too.
app_generate_terraform_keeping_blanks(form) ==
  LET provider == form_get(form, "provider", None)
      resource_type == form_get(form, "resource_type", None)
      kept == DOMAIN form \ {"provider", "resource_type"}
      config == [key \in kept |-> strip(form[key])]
      code ==
        IF provider = aws /\ resource_type = ec2
        THEN LET generated == generate_terraform_ec2(config)
             IN  IF generated.kind = "raise"
                 THEN generated ELSE Return(generated.value.text)
        ELSE IF provider = azure /\ resource_type = vm
        THEN Return(azure_vm_simplified(config))
        ELSE IF provider = gcp /\ resource_type = compute
        THEN generate_terraform_compute(config)
        ELSE Return("# Unsupported provider/resource combination")
      called ==
        IF provider = aws /\ resource_type = ec2
        THEN <<"aws_helper.generate_terraform_ec2">>
        ELSE IF provider = gcp /\ resource_type = compute
        THEN <<"gcp_helper.generate_terraform_compute">>
        ELSE <<>>
  IN  IF code.kind = "raise"
      THEN Handled(jsonify([error |-> code.exc, traceback |-> "traceback"]),
                   called)
      ELSE Handled(jsonify([ success |-> TRUE,
                             code |-> code.value,
                             provider |-> provider,
                             resource_type |-> resource_type ]),
                   called)

\* app.py, generate_terraform
app_generate_terraform(form) ==
  LET provider == form_get(form, "provider", None)
      resource_type == form_get(form, "resource_type", None)
      kept == { key \in DOMAIN form \ {"provider", "resource_type"} :
                  truthy(strip(form[key])) }
      config == [key \in kept |-> strip(form[key])]
      code ==
        IF provider = aws /\ resource_type = ec2
        THEN LET generated == generate_terraform_ec2(config)
             IN  IF generated.kind = "raise"
                 THEN generated ELSE Return(generated.value.text)
        ELSE IF provider = azure /\ resource_type = vm
        THEN Return(azure_vm_simplified(config))
        ELSE IF provider = gcp /\ resource_type = compute
        THEN generate_terraform_compute(config)
        ELSE Return("# Unsupported provider/resource combination")
      called ==
        IF provider = aws /\ resource_type = ec2
        THEN <<"aws_helper.generate_terraform_ec2">>
        ELSE IF provider = gcp /\ resource_type = compute
        THEN <<"gcp_helper.generate_terraform_compute">>
        ELSE <<>>
  IN  IF code.kind = "raise"
      THEN Handled(jsonify([error |-> code.exc, traceback |-> "traceback"]),
                   called)
      ELSE Handled(jsonify([ success |-> TRUE,
                             code |-> code.value,
                             provider |-> provider,
                             resource_type |-> resource_type ]),
                   called)

\* ", ".join(items)
RECURSIVE join_comma(_)
join_comma(items) ==
  IF items = <<>> THEN ""
  ELSE IF Len(items) = 1 THEN Head(items)
  ELSE Head(items) \o ", " \o join_comma(Tail(items))

\* items[:n]
first(items, n) == SubSeq(items, 1, IF Len(items) < n THEN Len(items) ELSE n)

\* app.py, search_api: the loop over the help categories
RECURSIVE search_categories(_, _)
search_categories(query, categories) ==
  IF categories = <<>>
  THEN <<>>
  ELSE LET category == Head(categories)
       IN  (IF contains(query, lower(chars(category)))
            THEN << [ type |-> "category",
                      title |-> category,
                      description |->
                        "Help with " \o text(lower(chars(category))) ] >>
            ELSE <<>>)
           \o search_categories(query, Tail(categories))

\* Mutant of search_providers: the key of the provider is not searched.
RECURSIVE search_providers_by_name_only(_, _, _)
search_providers_by_name_only(query, cloud_providers, keys) ==
  IF keys = <<>>
  THEN <<>>
  ELSE LET key == Head(keys)
           provider == cloud_providers[key]
       IN  (IF contains(query, lower(chars(provider.name)))
            THEN << [ type |-> "provider",
                      title |-> provider.name,
                      description |->
                        "Services: " \o join_comma(first(provider.services, 3))
                          \o "...",
                      url |-> "/" \o key ] >>
            ELSE <<>>)
           \o search_providers_by_name_only(query, cloud_providers, Tail(keys))

\* app.py, search_api: the loop over the items of agent.cloud_providers
RECURSIVE search_providers(_, _, _)
search_providers(query, cloud_providers, keys) ==
  IF keys = <<>>
  THEN <<>>
  ELSE LET key == Head(keys)
           provider == cloud_providers[key]
       IN  (IF \/ contains(query, lower(chars(provider.name)))
               \/ contains(query, chars(key))
            THEN << [ type |-> "provider",
                      title |-> provider.name,
                      description |->
                        "Services: " \o join_comma(first(provider.services, 3))
                          \o "...",
                      url |-> "/" \o key ] >>
            ELSE <<>>)
           \o search_providers(query, cloud_providers, Tail(keys))

\* app.py, search_api
search_api(self_agent, args) ==
  LET query == lower(form_get(args, "q", <<>>))
  IN  Handled(jsonify(search_categories(query, get_help_categories)
                      \o search_providers(query, self_agent.cloud_providers,
                                          provider_keys)),
              <<"get_help_categories">>)

----------------------------------------------------------------------------
(* What the handlers and methods write.                                    *)

\* Mutant of Writes: search_api keeps only the providers it matched in
\* agent.cloud_providers.
Writes_search_stores_on_agent ==
  { [by |-> "suggest_solution", target |-> "local", name |-> "suggestions"],
    [by |-> "/generate_terraform", target |-> "local", name |-> "config"],
    [by |-> "/api/search", target |-> "agent", name |-> "cloud_providers",
     value |-> <<>>] }

\* Every assignment to an item or attribute and every append outside the
\* constructors, with the object it changes: `suggestions`, a dictionary made
\* in the call (hypervisor_agent.py:98-115), `config` (app.py:92-95) and
\* `results` (app.py:191-205), both locals of the handler.  No statement has
\* an attribute of the agent or of a helper as its target.
Writes ==
  { [by |-> "suggest_solution", target |-> "local", name |-> "suggestions"],
    [by |-> "/generate_terraform", target |-> "local", name |-> "config"],
    [by |-> "/api/search", target |-> "local", name |-> "results"] }

\* the object `object` (named `target`) after the handlers and methods in
\* `executed` have run
written(target, object, executed) ==
  [ attribute \in DOMAIN object |->
      LET stores == { w \in Writes : /\ w.by \in executed
                                     /\ w.target = target
                                     /\ w.name = attribute }
      IN  IF stores = {}
          THEN object[attribute]
          ELSE (CHOOSE w \in stores : TRUE).value ]
----------------------------------------------------------------------------
(* The inputs the environment can send.                                    *)

vmware == <<"v", "m", "w", "a", "r", "e">>

\* Pieces of query text: whitespace, other text, the two trigger keywords in
\* mixed case, whole and in parts that only form a keyword when adjacent.
QueryChunks ==
  { <<" ", "\t">>,
    <<"x">>,
    <<"T", "e", "r", "r", "a", "f", "o", "r", "m">>,
    <<"t", "e", "r", "r", "a">>,
    <<"f", "o", "r", "m">>,
    <<"K", "U", "B", "E", "R", "N", "E", "T", "E", "S">>,
    <<"k", "u", "b", "e">> }

RECURSIVE QueriesOf(_)
QueriesOf(n) ==
  IF n = 0
  THEN {<<>>}
  ELSE LET shorter == QueriesOf(n - 1)
       IN  shorter \cup {q \o c : q \in shorter, c \in QueryChunks}

Queries == QueriesOf(MaxChunks)

\* provider arguments of a direct call of suggest_solution
CallProviders == {None, <<>>, aws, azure, gcp, auto, vmware}

\* values of the provider field of the /query form
FormProviders ==
  {<<>>, aws, azure, gcp, auto, vmware, <<" ">> \o gcp \o <<"\n">>}

\* the /query forms: each field present or missing
QueryForms ==
  { [k \in present |-> IF k = "query" THEN q ELSE p] :
      present \in SUBSET {"query", "provider"},
      q \in Queries, p \in FormProviders }

SdkProviders == {aws, azure, gcp, vmware}

SdkServices ==
  { <<"e", "c", "2">>,
    <<"s", "3">>,
    <<"c", "o", "m", "p", "u", "t", "e">>,
    <<"s", "t", "o", "r", "a", "g", "e">>,
    <<"l", "a", "m", "b", "d", "a">> }

SdkOperations ==
  { <<"l", "i", "s", "t", "_", "i", "n", "s", "t", "a", "n", "c", "e", "s">>,
    <<"c", "r", "e", "a", "t", "e", "_", "i", "n", "s", "t", "a", "n", "c", "e">>,
    <<"u", "p", "l", "o", "a", "d", "_", "f", "i", "l", "e">>,
    <<"l", "i", "s", "t", "_", "o", "b", "j", "e", "c", "t", "s">>,
    <<"l", "i", "s", "t", "_", "v", "m", "s">>,
    <<"c", "r", "e", "a", "t", "e", "_", "v", "m">>,
    <<"u", "p", "l", "o", "a", "d", "_", "b", "l", "o", "b">>,
    <<"l", "i", "s", "t", "_", "b", "l", "o", "b", "s">>,
    <<"d", "o", "w", "n", "l", "o", "a", "d", "_", "b", "l", "o", "b">>,
    <<"d", "e", "l", "e", "t", "e">> }

\* the /generate_sdk forms: each field present or missing
SdkForms ==
  { [k \in present |->
       IF k = "provider" THEN p ELSE IF k = "service" THEN s ELSE o] :
      present \in SUBSET {"provider", "service", "operation"},
      p \in SdkProviders, s \in SdkServices, o \in SdkOperations }

UseCases ==
  { <<"w", "e", "b", "_", "a", "p", "p", "l", "i", "c", "a", "t", "i", "o", "n">>,
    <<"a", "p", "i", "_", "b", "a", "c", "k", "e", "n", "d">>,
    <<"d", "a", "t", "a", "_", "p", "r", "o", "c", "e", "s", "s", "i", "n", "g">>,
    <<"m", "a", "c", "h", "i", "n", "e", "_", "l", "e", "a", "r", "n", "i", "n", "g">>,
    <<"c", "o", "n", "t", "a", "i", "n", "e", "r", "_", "w", "o", "r", "k", "l", "o", "a", "d", "s">>,
    <<"W", "e", "b", "_", "A", "p", "p", "l", "i", "c", "a", "t", "i", "o", "n">>,
    <<"i", "o", "t">>,
    <<>> }

\* the ten keys generate_terraform_ec2 reads
Ec2Keys ==
  { "name", "ami", "instance_type", "key_name", "subnet_id", "display_name",
    "environment", "user_data", "vpc_id", "ssh_cidr" }

\* a value for each key, none of them the default
Ec2Supplied ==
  [ name |-> <<"d", "b", "_", "1">>,
    ami |-> <<"a", "m", "i", "-", "1">>,
    instance_type |-> <<"t", "3", ".", "n", "a", "n", "o">>,
    key_name |-> <<"k">>,
    subnet_id |-> <<"s", "u", "b", "n", "e", "t", "-", "1">>,
    display_name |-> <<"D", "a", "t", "a", " ", "B", "a", "s", "e">>,
    environment |-> <<"t", "e", "s", "t">>,
    user_data |-> <<"e", "c", "h", "o", " ", "h", "i">>,
    vpc_id |-> <<"v", "p", "c", "-", "1">>,
    ssh_cidr |-> <<"0", ".", "0", ".", "0", ".", "0", "/", "0">> ]

\* the configs for generate_terraform_ec2: every subset of the ten keys, a
\* name that reads like a replacement field, a value with blanks around it,
\* and a key the generator does not read
Ec2Configs ==
  { [k \in present |-> Ec2Supplied[k]] : present \in SUBSET Ec2Keys }
  \cup { [name |-> <<"{", "a", "m", "i", "}">>],
          [name |-> <<" ", "a", " ">>, ssh_cidr |-> <<" ">>],
          [name |-> <<"d", "b", "_", "1">>, region |-> <<"e", "u">>] }

\* the configs for the function-body generators: the runtime missing, one
\* each generator recognises, and others; the description given or not
FunctionRuntimes ==
  { python, python3_9, python39, node, nodejs, javascript,
    <<"n", "o", "d", "e", "j", "s", "1", "8", ".", "x">>, <<"g", "o", "1", ".", "x">>, <<"P", "y", "t", "h", "o", "n">>, <<>> }

FunctionConfigs ==
  { [k \in present |-> IF k = "runtime" THEN r ELSE <<"r", "e", "s", "i", "z", "e">>] :
      present \in SUBSET {"runtime", "description"}, r \in FunctionRuntimes }

\* the /generate_terraform forms: provider and resource type present or
\* missing, a name that is given, blank or has blanks around it, an ami that
\* is empty or has white space around it, a location
TerraformForms ==
  { [k \in present |->
       IF k = "provider" THEN p
       ELSE IF k = "resource_type" THEN t
       ELSE IF k = "name" THEN n
       ELSE IF k = "ami" THEN a
       ELSE <<"W", "e", "s", "t", " ", "U", "S">>] :
      present \in SUBSET {"provider", "resource_type", "name", "ami", "location"},
      p \in {aws, azure, gcp, vmware},
      t \in {ec2, vm, compute},
      n \in {<<"d", "b", "_", "1">>, <<" ", " ">>, <<" ", "a", " ">>},
      a \in {<<>>, <<" ", "a", "m", "i", "-", "1", "\n">>} }

\* the query strings of /api/search: q missing, empty, in either case, part
\* of a category, of a provider name or of a key, or of nothing
SearchArgs ==
  { <<>> }
  \cup { [q |-> s] : s \in { <<>>, <<"a", "w", "s">>, <<"A", "Z", "U", "R", "E">>, <<"c", "l", "o", "u", "d">>,
                               <<"M", "a", "n", "a", "g", "e", "m", "e", "n", "t">>, <<"c", "o">>, <<"z", "z", "z">>,
                               <<"a">>, <<"g", "c", "p">>,
                               <<"W", "e", "b", " ", "S", "e", "r", "v", "i", "c", "e", "s">> } }

\* the pages of app.py
Pages ==
  { "/", "/aws", "/azure", "/gcp", "/terraform", "/sdk_examples",
    "/best_practices", "/hypervisors" }

Apps == {"app", "simple_app"}
Helpers == {"aws", "azure", "gcp"}

NoRequest == [kind |-> "none"]
NoResponse == [kind |-> "none"]
NoRemembered == [kind |-> "none"]
NoThreads == <<>>
NoHeap == [objects |-> <<>>, held |-> 0]

Requests ==
  { [kind |-> "call", target |-> "suggest_solution", query |-> q, provider |-> p] :
      q \in Queries, p \in CallProviders }
  \cup
  { [kind |-> "call", target |-> "get_help_categories"] }
  \cup
  { [kind |-> "call", target |-> "get_service_recommendations", helper |-> h,
     use_case |-> u] : h \in Helpers, u \in UseCases \cup {None} }
  \cup
  { [kind |-> "call", target |-> "generate_sdk_example", helper |-> h,
     service |-> s, operation |-> o] :
      h \in Helpers, s \in SdkServices \cup {None},
      o \in SdkOperations \cup {None} }
  \cup
  { [kind |-> "call", target |-> "generate_terraform_ec2", config |-> c] :
      c \in Ec2Configs }
  \cup
  { [kind |-> "call", target |-> "generate_function", helper |-> h,
     config |-> c] : h \in Helpers, c \in FunctionConfigs }
  \cup
  { [kind |-> "http", app |-> a, route |-> "/query", method |-> m, form |-> f] :
      a \in Apps, m \in {"GET", "POST"}, f \in QueryForms }
  \cup
  { [kind |-> "http", app |-> a, route |-> "/generate_sdk", method |-> "POST",
     form |-> f] : a \in Apps, f \in SdkForms }
  \cup
  { [kind |-> "http", app |-> a, route |-> "/recommendations", method |-> "GET",
     use_case |-> u] : a \in Apps, u \in UseCases }
  \cup
  { [kind |-> "http", app |-> "app", route |-> "/generate_terraform",
     method |-> "POST", form |-> f] : f \in TerraformForms }
  \cup
  { [kind |-> "http", app |-> "app", route |-> "/api/search", method |-> "GET",
     args |-> a] : a \in SearchArgs }
  \cup
  { [kind |-> "http", app |-> "app", route |-> p, method |-> "GET"] :
      p \in Pages }

----------------------------------------------------------------------------
(* The state machine.                                                      *)

Init ==
  /\ agent = HypervisorAgent
  /\ aws_helper = AWSHelper
  /\ azure_helper = AzureHelper
  /\ gcp_helper = GCPHelper
  /\ request = NoRequest
  /\ response = NoResponse
  /\ calls = <<>>
  /\ remembered = NoRemembered
  /\ threads = NoThreads
  /\ heap = NoHeap

\* a request or a call arrives while the process is idle
Arrive ==
  /\ request = NoRequest
  /\ \E r \in Requests : request' = r
  /\ UNCHANGED <<catalog, response, calls, aside>>

IsCall(target) ==
  /\ request.kind = "call"
  /\ request.target = target
  /\ response = NoResponse

IsHttp(app, route) ==
  /\ request.kind = "http"
  /\ request.app = app
  /\ request.route = route
  /\ response = NoResponse

\* the handler or method the request names
Named(r) == IF r.kind = "http" THEN r.route ELSE r.target

\* the handler or method and the methods it called
Executed(h) == {Named(request)} \cup {h.calls[i] : i \in 1..Len(h.calls)}

Handle(h) ==
  /\ response' = h.response
  /\ calls' = h.calls
  /\ agent' = written("agent", agent, Executed(h))
  /\ aws_helper' = written("aws_helper", aws_helper, Executed(h))
  /\ azure_helper' = written("azure_helper", azure_helper, Executed(h))
  /\ gcp_helper' = written("gcp_helper", gcp_helper, Executed(h))
  /\ UNCHANGED <<request, aside>>

\* Mutant of CallSuggestSolution: the recommendations are kept on the agent
\* and each call adds to those of the calls before it.
CallSuggestSolution_keeping ==
  /\ IsCall("suggest_solution")
  /\ LET kept == IF "suggestions" \in DOMAIN agent
                 THEN agent.suggestions ELSE <<>>
         result == suggest_solution(request.query, request.provider)
         recommendations == kept \o result.value.recommendations
     IN  /\ response' =
              Return([result.value EXCEPT !.recommendations = recommendations])
         /\ agent' = [ cloud_providers |-> agent.cloud_providers,
                       hypervisors |-> agent.hypervisors,
                       suggestions |-> recommendations ]
  /\ calls' = <<"suggest_solution">>
  /\ UNCHANGED <<aws_helper, azure_helper, gcp_helper, request, aside>>

\* agent.suggest_solution(query, provider), called directly
CallSuggestSolution ==
  /\ IsCall("suggest_solution")
  /\ Handle(Handled(suggest_solution(request.query, request.provider),
                    <<"suggest_solution">>))

\* agent.get_help_categories(), called directly
CallGetHelpCategories ==
  /\ IsCall("get_help_categories")
  /\ Handle(Handled(Return(get_help_categories), <<"get_help_categories">>))

\* aws_helper.get_service_recommendations(use_case), called directly
CallAwsRecommendations ==
  /\ IsCall("get_service_recommendations")
  /\ request.helper = "aws"
  /\ Handle(Handled(Return(aws_get_service_recommendations(request.use_case)),
                    <<"aws_helper.get_service_recommendations">>))

\* azure_helper.get_service_recommendations(use_case), called directly
CallAzureRecommendations ==
  /\ IsCall("get_service_recommendations")
  /\ request.helper = "azure"
  /\ Handle(Handled(Return(azure_get_service_recommendations(request.use_case)),
                    <<"azure_helper.get_service_recommendations">>))

\* gcp_helper.get_service_recommendations(use_case), called directly
CallGcpRecommendations ==
  /\ IsCall("get_service_recommendations")
  /\ request.helper = "gcp"
  /\ Handle(Handled(Return(gcp_get_service_recommendations(request.use_case)),
                    <<"gcp_helper.get_service_recommendations">>))

\* aws_helper.generate_boto3_example(service, operation), called directly
CallBoto3Example ==
  /\ IsCall("generate_sdk_example")
  /\ request.helper = "aws"
  /\ Handle(Handled(Return(generate_boto3_example(request.service,
                                                  request.operation)),
                    <<"aws_helper.generate_boto3_example">>))

\* azure_helper.generate_azure_sdk_example(service, operation), called directly
CallAzureSdkExample ==
  /\ IsCall("generate_sdk_example")
  /\ request.helper = "azure"
  /\ Handle(Handled(Return(generate_azure_sdk_example(request.service,
                                                      request.operation)),
                    <<"azure_helper.generate_azure_sdk_example">>))

\* gcp_helper.generate_gcp_sdk_example(service, operation), called directly
CallGcpSdkExample ==
  /\ IsCall("generate_sdk_example")
  /\ request.helper = "gcp"
  /\ Handle(Handled(Return(generate_gcp_sdk_example(request.service,
                                                    request.operation)),
                    <<"gcp_helper.generate_gcp_sdk_example">>))

\* aws_helper.generate_terraform_ec2(config), called directly
CallTerraformEc2 ==
  /\ IsCall("generate_terraform_ec2")
  /\ Handle(Handled(generate_terraform_ec2(request.config),
                    <<"aws_helper.generate_terraform_ec2">>))

\* aws_helper.generate_lambda_function(config), called directly
CallLambdaFunction ==
  /\ IsCall("generate_function")
  /\ request.helper = "aws"
  /\ Handle(Handled(generate_lambda_function(request.config),
                    <<"aws_helper.generate_lambda_function">>))

\* azure_helper.generate_azure_function(config), called directly
CallAzureFunction ==
  /\ IsCall("generate_function")
  /\ request.helper = "azure"
  /\ Handle(Handled(generate_azure_function(request.config),
                    <<"azure_helper.generate_azure_function">>))

\* gcp_helper.generate_cloud_function(config), called directly
CallCloudFunction ==
  /\ IsCall("generate_function")
  /\ request.helper = "gcp"
  /\ Handle(Handled(generate_cloud_function(request.config),
                    <<"gcp_helper.generate_cloud_function">>))

\* app.py: GET or POST /query
AppQueryAgent ==
  /\ IsHttp("app", "/query")
  /\ Handle(app_query_agent(request.method, request.form))

\* simple_app.py: GET or POST /query
SimpleQueryAgent ==
  /\ IsHttp("simple_app", "/query")
  /\ Handle(simple_query_agent(request.method, request.form))

\* app.py: POST /generate_sdk
AppGenerateSdk ==
  /\ IsHttp("app", "/generate_sdk")
  /\ Handle(app_generate_sdk(request.form))

\* simple_app.py: POST /generate_sdk
SimpleGenerateSdk ==
  /\ IsHttp("simple_app", "/generate_sdk")
  /\ Handle(simple_generate_sdk(request.form))

\* app.py: GET /recommendations/<use_case>
AppRecommendations ==
  /\ IsHttp("app", "/recommendations")
  /\ Handle(app_recommendations(request.use_case))

\* simple_app.py: GET /recommendations/<use_case>
SimpleRecommendations ==
  /\ IsHttp("simple_app", "/recommendations")
  /\ Handle(simple_recommendations(request.use_case))

\* app.py: POST /generate_terraform
AppGenerateTerraform ==
  /\ IsHttp("app", "/generate_terraform")
  /\ Handle(app_generate_terraform(request.form))

\* app.py: GET /api/search
AppSearchApi ==
  /\ IsHttp("app", "/api/search")
  /\ Handle(search_api(agent, request.args))

\* app.py: GET / and the other pages
AppPage ==
  /\ request.kind = "http"
  /\ request.app = "app"
  /\ request.route \in Pages
  /\ response = NoResponse
  /\ Handle(CASE request.route = "/" -> index(agent)
             [] request.route = "/aws" -> aws_page(aws_helper)
             [] request.route = "/azure" -> azure_page(azure_helper)
             [] request.route = "/gcp" -> gcp_page(gcp_helper)
             [] request.route = "/terraform" -> terraform_page
             [] request.route = "/sdk_examples" -> sdk_examples
             [] request.route = "/best_practices" -> best_practices
             [] request.route = "/hypervisors" -> hypervisors(agent))

\* the response is handed back; the process is idle again
Reply ==
  /\ response # NoResponse
  /\ request' = NoRequest
  /\ response' = NoResponse
  /\ calls' = <<>>
  /\ UNCHANGED <<catalog, aside>>

Next ==
  \/ Arrive
  \/ CallSuggestSolution
  \/ CallGetHelpCategories
  \/ CallAwsRecommendations
  \/ CallAzureRecommendations
  \/ CallGcpRecommendations
  \/ CallBoto3Example
  \/ CallAzureSdkExample
  \/ CallGcpSdkExample
  \/ CallTerraformEc2
  \/ CallLambdaFunction
  \/ CallAzureFunction
  \/ CallCloudFunction
  \/ AppQueryAgent
  \/ SimpleQueryAgent
  \/ AppGenerateSdk
  \/ SimpleGenerateSdk
  \/ AppRecommendations
  \/ SimpleRecommendations
  \/ AppGenerateTerraform
  \/ AppSearchApi
  \/ AppPage
  \/ Reply

Spec == Init /\ [][Next]_vars


----------------------------------------------------------------------------
(* The same machine with a history: one earlier request and its response   *)
(* are kept and every later response can be compared with them.            *)

\* A repeated query is the concatenation of at most MaxRepeatChunks pieces of
\* RepeatChunks.
MaxRepeatChunks == 2

\* a keyword in two spellings that differ in case only, and the other keyword
RepeatChunks ==
  { <<"T", "e", "r", "r", "a", "f", "o", "r", "m">>,
    <<"t", "e", "r", "r", "a", "f", "o", "r", "m">>,
    <<" ", "K", "U", "B", "E", "R", "N", "E", "T", "E", "S">> }

RECURSIVE RepeatQueriesOf(_)
RepeatQueriesOf(n) ==
  IF n = 0
  THEN {<<>>}
  ELSE LET shorter == RepeatQueriesOf(n - 1)
       IN  shorter \cup {q \o c : q \in shorter, c \in RepeatChunks}

RepeatQueries == RepeatQueriesOf(MaxRepeatChunks)

\* the /query forms: the provider field missing, empty, 'auto' or a provider
RepeatForms ==
  { [query |-> q] : q \in RepeatQueries }
  \cup { [query |-> q, provider |-> p] :
           q \in RepeatQueries, p \in {<<>>, auto, gcp} }

RepeatRequests ==
  { [kind |-> "call", target |-> "suggest_solution", query |-> q, provider |-> p] :
      q \in RepeatQueries, p \in {None, azure, gcp} }
  \cup
  { [kind |-> "call", target |-> "get_help_categories"] }
  \cup
  { [kind |-> "call", target |-> "get_service_recommendations", helper |-> h,
     use_case |-> u] :
      h \in Helpers,
      u \in { <<"w", "e", "b", "_", "a", "p", "p", "l", "i", "c", "a", "t", "i", "o", "n">>,
              <<"i", "o", "t">> } }
  \cup
  { [kind |-> "call", target |-> "generate_sdk_example", helper |-> h,
     service |-> s, operation |-> o] :
      h \in Helpers,
      s \in {<<"e", "c", "2">>, <<"c", "o", "m", "p", "u", "t", "e">>},
      o \in { <<"l", "i", "s", "t", "_", "i", "n", "s", "t", "a", "n", "c", "e", "s">>,
              <<"l", "i", "s", "t", "_", "v", "m", "s">> } }
  \cup
  { [kind |-> "http", app |-> a, route |-> "/query", method |-> "POST",
     form |-> f] : a \in Apps, f \in RepeatForms }

\* a request or a call arrives while the process is idle
ArriveAgain ==
  /\ request = NoRequest
  /\ \E r \in RepeatRequests : request' = r
  /\ UNCHANGED <<catalog, response, calls, aside>>

\* the request just answered and its response are kept for later comparison
Remember ==
  /\ response # NoResponse
  /\ remembered' = [kind |-> "pair", request |-> request, response |-> response]
  /\ UNCHANGED <<catalog, request, response, calls, threads, heap>>

NextHistory ==
  \/ ArriveAgain
  \/ CallSuggestSolution
  \/ CallGetHelpCategories
  \/ CallAwsRecommendations
  \/ CallAzureRecommendations
  \/ CallGcpRecommendations
  \/ CallBoto3Example
  \/ CallAzureSdkExample
  \/ CallGcpSdkExample
  \/ AppQueryAgent
  \/ SimpleQueryAgent
  \/ Remember
  \/ Reply

SpecHistory == Init /\ [][NextHistory]_vars

----------------------------------------------------------------------------
(* Several requests at once: app.run serves each request of app.py on a    *)
(* thread of its own, and the threads share agent and the three helpers.   *)
(* A thread runs its handler one statement at a time; between two          *)
(* statements any other thread may run.                                    *)

\* the number of threads that serve requests at the same time
NumThreads == 2

Threads == 1..NumThreads

Idle ==
  [pc |-> "idle", request |-> NoRequest, frame |-> <<>>, response |-> NoResponse]

\* the /query forms of the threads: each keyword, both, neither, a blank
\* query, with and without a provider
ConcurrentForms ==
  { [query |-> <<"t", "e", "r", "r", "a", "f", "o", "r", "m">>],
    [query |-> <<"K", "u", "b", "e", "r", "n", "e", "t", "e", "s">>,
     provider |-> auto],
    [query |-> <<"t", "e", "r", "r", "a", "f", "o", "r", "m", " ",
                 "k", "u", "b", "e", "r", "n", "e", "t", "e", "s">>,
     provider |-> gcp],
    [query |-> <<"h", "e", "l", "p">>, provider |-> azure],
    [query |-> <<" ">>] }

ConcurrentRequests ==
  { [kind |-> "http", app |-> "app", route |-> "/query", method |-> "POST",
     form |-> f] : f \in ConcurrentForms }
  \cup
  { [kind |-> "http", app |-> "app", route |-> "/query", method |-> "GET",
     form |-> <<>>] }
  \cup
  { [kind |-> "http", app |-> "app", route |-> "/recommendations",
     method |-> "GET", use_case |-> u] :
      u \in { <<"w", "e", "b", "_", "a", "p", "p", "l", "i", "c", "a", "t", "i", "o", "n">>,
              <<"i", "o", "t">> } }
  \cup
  { [kind |-> "http", app |-> "app", route |-> "/generate_sdk",
     method |-> "POST", form |-> f] :
      f \in { [provider |-> aws, service |-> <<"s", "3">>,
               operation |-> <<"u", "p", "l", "o", "a", "d", "_", "f", "i", "l", "e">>],
              [provider |-> gcp, service |-> <<"s", "3">>,
               operation |-> <<"d", "e", "l", "e", "t", "e">>],
              [service |-> <<"e", "c", "2">>] } }

InitConcurrent ==
  /\ agent = HypervisorAgent
  /\ aws_helper = AWSHelper
  /\ azure_helper = AzureHelper
  /\ gcp_helper = GCPHelper
  /\ request = NoRequest
  /\ response = NoResponse
  /\ calls = <<>>
  /\ remembered = NoRemembered
  /\ threads = [t \in Threads |-> Idle]
  /\ heap = NoHeap

\* Mutant of suggest_solution_step: the dictionary is kept in an attribute of
\* the agent, self.suggestions, which all threads share.
suggest_solution_step_on_self(self, frame) ==
  LET attributes == DOMAIN self \cup {"suggestions"}
      store(value) ==
        [a \in attributes |-> IF a = "suggestions" THEN value ELSE self[a]]
  IN
  CASE frame.at = "enter" ->
         [ self |-> store([ query |-> frame.query,
                            provider |-> frame.provider,
                            recommendations |-> <<>>,
                            code_examples |-> <<>>,
                            best_practices |-> <<>> ]),
           frame |-> [frame EXCEPT !.at = "terraform"] ]
    [] frame.at = "terraform" ->
         IF contains(terraform, lower(frame.query))
         THEN [ self |-> [self EXCEPT !.suggestions.recommendations =
                            Append(@, "Use Terraform for infrastructure as code")],
                frame |-> [frame EXCEPT !.at = "terraform_example"] ]
         ELSE [self |-> self, frame |-> [frame EXCEPT !.at = "kubernetes"]]
    [] frame.at = "terraform_example" ->
         LET example == _get_terraform_example(frame.provider)
         IN  IF example.kind = "raise"
             THEN [ self |-> self,
                    frame |-> [at |-> "raised", exc |-> example.exc] ]
             ELSE [ self |-> [self EXCEPT !.suggestions.code_examples =
                                Append(@, example.value)],
                    frame |-> [frame EXCEPT !.at = "kubernetes"] ]
    [] frame.at = "kubernetes" ->
         IF contains(kubernetes, lower(frame.query))
         THEN [ self |-> [self EXCEPT !.suggestions.recommendations =
                            Append(@, "Consider managed Kubernetes services")],
                frame |-> [frame EXCEPT !.at = "kubernetes_example"] ]
         ELSE [self |-> self, frame |-> [frame EXCEPT !.at = "return"]]
    [] frame.at = "kubernetes_example" ->
         LET example == _get_k8s_example(frame.provider)
         IN  IF example.kind = "raise"
             THEN [ self |-> self,
                    frame |-> [at |-> "raised", exc |-> example.exc] ]
             ELSE [ self |-> [self EXCEPT !.suggestions.code_examples =
                                Append(@, example.value)],
                    frame |-> [frame EXCEPT !.at = "return"] ]
    [] frame.at = "return" ->
         [ self |-> self,
           frame |-> [at |-> "returned", result |-> self.suggestions] ]

\* HypervisorAgent.suggest_solution, one statement: the agent and the frame
\* of the call after the statement at frame.at.  `suggestions` is a local of
\* the call.
suggest_solution_step(self, frame) ==
  CASE frame.at = "enter" ->
         [ self |-> self,
           frame |-> [ at |-> "terraform",
                       query |-> frame.query,
                       provider |-> frame.provider,
                       suggestions |->
                         [ query |-> frame.query,
                           provider |-> frame.provider,
                           recommendations |-> <<>>,
                           code_examples |-> <<>>,
                           best_practices |-> <<>> ] ] ]
    [] frame.at = "terraform" ->
         IF contains(terraform, lower(frame.query))
         THEN [ self |-> self,
                frame |-> [frame EXCEPT
                            !.suggestions.recommendations =
                              Append(@, "Use Terraform for infrastructure as code"),
                            !.at = "terraform_example"] ]
         ELSE [self |-> self, frame |-> [frame EXCEPT !.at = "kubernetes"]]
    [] frame.at = "terraform_example" ->
         LET example == _get_terraform_example(frame.provider)
         IN  IF example.kind = "raise"
             THEN [ self |-> self,
                    frame |-> [at |-> "raised", exc |-> example.exc] ]
             ELSE [ self |-> self,
                    frame |-> [frame EXCEPT
                                !.suggestions.code_examples =
                                  Append(@, example.value),
                                !.at = "kubernetes"] ]
    [] frame.at = "kubernetes" ->
         IF contains(kubernetes, lower(frame.query))
         THEN [ self |-> self,
                frame |-> [frame EXCEPT
                            !.suggestions.recommendations =
                              Append(@, "Consider managed Kubernetes services"),
                            !.at = "kubernetes_example"] ]
         ELSE [self |-> self, frame |-> [frame EXCEPT !.at = "return"]]
    [] frame.at = "kubernetes_example" ->
         LET example == _get_k8s_example(frame.provider)
         IN  IF example.kind = "raise"
             THEN [ self |-> self,
                    frame |-> [at |-> "raised", exc |-> example.exc] ]
             ELSE [ self |-> self,
                    frame |-> [frame EXCEPT
                                !.suggestions.code_examples =
                                  Append(@, example.value),
                                !.at = "return"] ]
    [] frame.at = "return" ->
         [ self |-> self,
           frame |-> [at |-> "returned", result |-> frame.suggestions] ]

\* app.py, recommendations, one statement: the frame after the statement at
\* frame.at
recommendations_step(frame) ==
  CASE frame.at = "aws_recs" ->
         [ at |-> "azure_recs",
           use_case |-> frame.use_case,
           aws_recs |-> aws_get_service_recommendations(frame.use_case) ]
    [] frame.at = "azure_recs" ->
         [ at |-> "gcp_recs",
           use_case |-> frame.use_case,
           aws_recs |-> frame.aws_recs,
           azure_recs |-> azure_get_service_recommendations(frame.use_case) ]
    [] frame.at = "gcp_recs" ->
         [ at |-> "jsonify",
           use_case |-> frame.use_case,
           aws_recs |-> frame.aws_recs,
           azure_recs |-> frame.azure_recs,
           gcp_recs |-> gcp_get_service_recommendations(frame.use_case) ]

\* app.py, generate_sdk, up to the assignment of `code`
generate_sdk_code(form) ==
  LET provider == form_get(form, "provider", None)
      service == form_get(form, "service", None)
      operation == form_get(form, "operation", None)
  IN  [ at |-> "jsonify",
        provider |-> provider,
        service |-> service,
        operation |-> operation,
        code |->
          IF provider = aws THEN generate_boto3_example(service, operation)
          ELSE IF provider = azure
               THEN generate_azure_sdk_example(service, operation)
          ELSE IF provider = gcp
               THEN generate_gcp_sdk_example(service, operation)
          ELSE "# Unsupported provider" ]

\* thread t goes on as `next`
Continue(t, next) ==
  /\ threads' = [threads EXCEPT ![t] = next]
  /\ UNCHANGED <<request, response, calls, remembered, heap>>

\* a request arrives and is given to an idle thread
Accept(t) ==
  /\ threads[t].pc = "idle"
  /\ \E r \in ConcurrentRequests :
       Continue(t, [ pc |-> r.route, request |-> r, frame |-> <<>>,
                     response |-> NoResponse ])
  /\ UNCHANGED catalog

\* query_agent up to the call of agent.suggest_solution
QueryAgentEnter(t) ==
  /\ threads[t].pc = "/query"
  /\ LET method == threads[t].request.method
         form == threads[t].request.form
         query == strip(form_get(form, "query", <<>>))
         provider == strip(form_get(form, "provider", <<>>))
     IN  IF method = "GET"
         THEN Continue(t, [threads[t] EXCEPT
                !.pc = "done", !.response = render_template("query.html")])
         ELSE IF ~truthy(query)
         THEN Continue(t, [threads[t] EXCEPT
                !.pc = "done",
                !.response = jsonify([error |-> "Please enter a query"])])
         ELSE Continue(t, [threads[t] EXCEPT
                !.pc = "suggest_solution",
                !.frame = [ at |-> "enter",
                            query |-> query,
                            provider |->
                              IF provider # auto THEN provider ELSE None ]])
  /\ UNCHANGED catalog

\* one statement of agent.suggest_solution
SuggestSolutionStep(t) ==
  /\ threads[t].pc = "suggest_solution"
  /\ threads[t].frame.at \notin {"returned", "raised"}
  /\ LET after == suggest_solution_step(agent, threads[t].frame)
     IN  /\ agent' = after.self
         /\ Continue(t, [threads[t] EXCEPT !.frame = after.frame])
  /\ UNCHANGED <<aws_helper, azure_helper, gcp_helper>>

\* query_agent from the return of agent.suggest_solution
QueryAgentReturn(t) ==
  /\ threads[t].pc = "suggest_solution"
  /\ threads[t].frame.at \in {"returned", "raised"}
  /\ LET frame == threads[t].frame
     IN  IF frame.at = "raised"
         THEN Continue(t, [threads[t] EXCEPT
                !.pc = "done",
                !.response = jsonify([ error |-> frame.exc,
                                       traceback |-> "traceback" ])])
         ELSE Continue(t, [threads[t] EXCEPT
                !.pc = "done",
                !.response =
                  jsonify([ success |-> TRUE,
                            query |-> frame.result.query,
                            provider |->
                              IF truthy(frame.result.provider)
                              THEN frame.result.provider
                              ELSE General,
                            recommendations |-> frame.result.recommendations,
                            code_examples |-> frame.result.code_examples ])])
  /\ UNCHANGED catalog

\* recommendations: the next of the three calls of get_service_recommendations
RecommendationsStep(t) ==
  /\ threads[t].pc = "/recommendations"
  /\ LET frame ==
           IF threads[t].frame = <<>>
           THEN [at |-> "aws_recs", use_case |-> threads[t].request.use_case]
           ELSE threads[t].frame
     IN  /\ frame.at # "jsonify"
         /\ Continue(t, [threads[t] EXCEPT !.frame = recommendations_step(frame)])
  /\ UNCHANGED catalog

\* recommendations: return jsonify(...)
RecommendationsReturn(t) ==
  /\ threads[t].pc = "/recommendations"
  /\ threads[t].frame # <<>>
  /\ threads[t].frame.at = "jsonify"
  /\ LET frame == threads[t].frame
     IN  Continue(t, [threads[t] EXCEPT
           !.pc = "done",
           !.response = jsonify([ use_case |-> frame.use_case,
                                  aws |-> frame.aws_recs,
                                  azure |-> frame.azure_recs,
                                  gcp |-> frame.gcp_recs ])])
  /\ UNCHANGED catalog

\* generate_sdk: the form is read and the helper called
GenerateSdkCode(t) ==
  /\ threads[t].pc = "/generate_sdk"
  /\ threads[t].frame = <<>>
  /\ Continue(t, [threads[t] EXCEPT
       !.frame = generate_sdk_code(threads[t].request.form)])
  /\ UNCHANGED catalog

\* generate_sdk: return jsonify(...)
GenerateSdkReturn(t) ==
  /\ threads[t].pc = "/generate_sdk"
  /\ threads[t].frame # <<>>
  /\ LET frame == threads[t].frame
     IN  Continue(t, [threads[t] EXCEPT
           !.pc = "done",
           !.response = jsonify([ success |-> TRUE,
                                  code |-> frame.code,
                                  provider |-> frame.provider,
                                  service |-> frame.service,
                                  operation |-> frame.operation ])])
  /\ UNCHANGED catalog

\* the response is sent; the thread is free again
Send(t) ==
  /\ threads[t].pc = "done"
  /\ Continue(t, Idle)
  /\ UNCHANGED catalog

NextConcurrent ==
  \E t \in Threads :
    \/ Accept(t)
    \/ QueryAgentEnter(t)
    \/ SuggestSolutionStep(t)
    \/ QueryAgentReturn(t)
    \/ RecommendationsStep(t)
    \/ RecommendationsReturn(t)
    \/ GenerateSdkCode(t)
    \/ GenerateSdkReturn(t)
    \/ Send(t)

SpecConcurrent == InitConcurrent /\ [][NextConcurrent]_vars

----------------------------------------------------------------------------
(* The lists the methods return, as objects: a list display makes a new    *)
(* list each time it is evaluated; the caller keeps the lists it was given *)
(* and may change them between two calls.                                  *)

\* the number of list objects there can be
MaxObjects == 4

\* the calls of the caller: get_help_categories, get_service_recommendations
\* of a mapped and of an unmapped use case, suggest_solution
CallerRequests ==
  { [kind |-> "call", target |-> "get_help_categories"],
    [kind |-> "call", target |-> "get_service_recommendations",
     helper |-> "azure", use_case |-> <<"i", "o", "t">>],
    [kind |-> "call", target |-> "get_service_recommendations",
     helper |-> "aws",
     use_case |-> <<"a", "p", "i", "_", "b", "a", "c", "k", "e", "n", "d">>],
    [kind |-> "call", target |-> "suggest_solution",
     query |-> <<"t", "e", "r", "r", "a", "f", "o", "r", "m">>,
     provider |-> None] }

\* how many lists the call makes
ListsOf(r) == IF r.target = "suggest_solution" THEN 3 ELSE 1

\* [a, b, ...]: a new list object with these items
new_list(objects, items) ==
  [objects |-> Append(objects, items), value |-> [ref |-> Len(objects) + 1]]

\* Mutant of help_categories_list: the list is made at the first call and
\* the same list is returned by every later call.
help_categories_list_kept(objects) ==
  LET made == { a \in 1..Len(objects) :
                  /\ Len(objects[a]) >= Len(get_help_categories)
                  /\ SubSeq(objects[a], 1, Len(get_help_categories))
                       = get_help_categories }
  IN  IF made = {}
      THEN new_list(objects, get_help_categories)
      ELSE [ objects |-> objects,
             value |-> [ref |-> CHOOSE a \in made : \A b \in made : a <= b] ]

\* HypervisorAgent.get_help_categories: return [ ... ]
help_categories_list(objects) == new_list(objects, get_help_categories)

\* get_service_recommendations of a helper: the list of the table or the
\* default list, both made in the call
service_recommendations_list(objects, helper, use_case) ==
  new_list(objects,
           CASE helper = "aws" -> aws_get_service_recommendations(use_case)
             [] helper = "azure" -> azure_get_service_recommendations(use_case)
             [] helper = "gcp" -> gcp_get_service_recommendations(use_case))

\* HypervisorAgent.suggest_solution: the three lists of `suggestions` are
\* made empty in the call and appended to
suggest_solution_lists(objects, query, provider) ==
  LET result == suggest_solution(query, provider).value
      recs == new_list(objects, result.recommendations)
      examples == new_list(recs.objects, result.code_examples)
      practices == new_list(examples.objects, result.best_practices)
  IN  [ objects |-> practices.objects,
        value |-> [ query |-> result.query,
                    provider |-> result.provider,
                    recommendations |-> recs.value,
                    code_examples |-> examples.value,
                    best_practices |-> practices.value ] ]

\* the caller makes a call, if there is room for the lists it will make
CallerCalls ==
  /\ request = NoRequest
  /\ \E r \in CallerRequests :
       /\ Len(heap.objects) + ListsOf(r) <= MaxObjects
       /\ request' = r
  /\ UNCHANGED <<catalog, response, calls, aside>>

\* the call returns `made.value`, with the objects as `made.objects`
Returns(made, called) ==
  /\ response' = Return(made.value)
  /\ calls' = called
  /\ heap' = [heap EXCEPT !.objects = made.objects]
  /\ agent' = written("agent", agent, {called[i] : i \in 1..Len(called)})
  /\ aws_helper' = written("aws_helper", aws_helper,
                           {called[i] : i \in 1..Len(called)})
  /\ azure_helper' = written("azure_helper", azure_helper,
                             {called[i] : i \in 1..Len(called)})
  /\ gcp_helper' = written("gcp_helper", gcp_helper,
                           {called[i] : i \in 1..Len(called)})
  /\ UNCHANGED <<request, remembered, threads>>

\* agent.get_help_categories() returns its list
ReturnHelpCategories ==
  /\ IsCall("get_help_categories")
  /\ Returns(help_categories_list(heap.objects), <<"get_help_categories">>)

\* helper.get_service_recommendations(use_case) returns its list
ReturnServiceRecommendations ==
  /\ IsCall("get_service_recommendations")
  /\ Returns(service_recommendations_list(heap.objects, request.helper,
                                          request.use_case),
             <<"get_service_recommendations">>)

\* agent.suggest_solution(query, provider) returns its dictionary
ReturnSuggestSolution ==
  /\ IsCall("suggest_solution")
  /\ Returns(suggest_solution_lists(heap.objects, request.query,
                                    request.provider),
             <<"suggest_solution">>)

\* the caller has the result and keeps its lists
CallerTakes ==
  /\ response # NoResponse
  /\ request' = NoRequest
  /\ response' = NoResponse
  /\ calls' = <<>>
  /\ heap' = [heap EXCEPT !.held = Len(heap.objects)]
  /\ UNCHANGED <<catalog, remembered, threads>>

\* what the caller appends to a list it was given
Appended == "appended by the caller"

\* between two calls the caller appends to one of the lists it keeps
CallerChanges ==
  /\ request = NoRequest
  /\ \E a \in 1..heap.held :
       /\ IF heap.objects[a] = <<>>
          THEN TRUE
          ELSE heap.objects[a][Len(heap.objects[a])] # Appended
       /\ heap' = [heap EXCEPT !.objects[a] = Append(@, Appended)]
  /\ UNCHANGED <<catalog, request, response, calls, remembered, threads>>

NextCaller ==
  \/ CallerCalls
  \/ ReturnHelpCategories
  \/ ReturnServiceRecommendations
  \/ ReturnSuggestSolution
  \/ CallerTakes
  \/ CallerChanges

SpecCaller == Init /\ [][NextCaller]_vars
----------------------------------------------------------------------------
(* What the claims speak of, stated without the operators of the code.     *)

\* the request has been handled and its response not yet handed back
Answered == response # NoResponse

\* a direct call of `target` has returned or raised
CallAnswered(target) ==
  request.kind = "call" /\ request.target = target /\ Answered

\* app `a` has answered a request to `route` made with `method`
HttpAnswered(a, route, method) ==
  /\ request.kind = "http"
  /\ request.app = a
  /\ request.route = route
  /\ request.method = method
  /\ Answered

\* c is the letter d, in either case (d a lower-case letter or another character)
SameLetter(c, d) ==
  c = d \/ \E k \in DOMAIN LowerCase : LowerCase[k] = d /\ UpperCase[k] = c

\* the text q holds the keyword somewhere, in any mix of cases
HasKeyword(keyword, q) ==
  \E start \in 1..Len(q) :
    /\ start + Len(keyword) - 1 <= Len(q)
    /\ \A j \in 1..Len(keyword) : SameLetter(q[start + j - 1], keyword[j])

\* the text q is empty or holds whitespace only
IsBlank(q) == \A i \in 1..Len(q) : q[i] \in Whitespace

\* x is an element of the sequence s
InSeq(x, s) == \E i \in 1..Len(s) : s[i] = x

TerraformRecommendation == "Use Terraform for infrastructure as code"
KubernetesRecommendation == "Consider managed Kubernetes services"

\* the terraform example text of provider p, p one of aws, azure, gcp
TerraformTextOf(p) ==
  CASE p = aws -> terraform_example_aws
    [] p = azure -> terraform_example_azure
    [] p = gcp -> terraform_example_gcp

TerraformTexts ==
  {terraform_example_aws, terraform_example_azure, terraform_example_gcp}

QueryResultKeys ==
  {"query", "provider", "recommendations", "code_examples", "best_practices"}

\* the (service, operation) pairs each helper's snippet lookup has an entry for
SnippetCatalog(helper) ==
  CASE helper = "aws" ->
         { <<"ec2", "list_instances">>, <<"ec2", "create_instance">>,
           <<"s3", "upload_file">>, <<"s3", "list_objects">> }
    [] helper = "azure" ->
         { <<"compute", "list_vms">>, <<"compute", "create_vm">>,
           <<"storage", "upload_blob">>, <<"storage", "list_blobs">> }
    [] helper = "gcp" ->
         { <<"compute", "list_instances">>, <<"compute", "create_instance">>,
           <<"storage", "upload_blob">>, <<"storage", "list_blobs">>,
           <<"storage", "download_blob">> }

\* service and operation are an entry of the helper's snippet lookup
InSnippetCatalog(helper, service, operation) ==
  /\ service # None
  /\ operation # None
  /\ <<text(service), text(operation)>> \in SnippetCatalog(helper)

\* the use cases each helper's recommendation table has an entry for
MappedUseCases(helper) ==
  CASE helper = "aws" ->
         {"web_application", "api_backend", "data_processing", "machine_learning"}
    [] helper = "azure" ->
         {"web_application", "api_backend", "data_processing", "machine_learning"}
    [] helper = "gcp" ->
         { "web_application", "api_backend", "data_processing",
           "machine_learning", "container_workloads" }

IsMapped(helper, use_case) ==
  use_case # None /\ text(use_case) \in MappedUseCases(helper)

\* the use cases of the table of simple_app.py
SimpleMappedUseCases == {"web_application", "api_backend"}

----------------------------------------------------------------------------
(* The claims.                                                             *)

\* C1: whenever the query holds both 'terraform' and 'kubernetes' (any case,
\* either order), suggest_solution returns the terraform recommendation then
\* the kubernetes one, and a terraform example then the kubernetes example;
\* with provider None the terraform example is the aws one.
C1_BothKeywordsInCheckOrder ==
  ( /\ CallAnswered("suggest_solution")
    /\ HasKeyword(terraform, request.query)
    /\ HasKeyword(kubernetes, request.query) )
  => /\ response.kind = "return"
     /\ response.value.recommendations =
          <<TerraformRecommendation, KubernetesRecommendation>>
     /\ Len(response.value.code_examples) = 2
     /\ response.value.code_examples[1] \in TerraformTexts
     /\ response.value.code_examples[2] = k8s_example
     /\ (request.provider = None
           => response.value.code_examples[1] = terraform_example_aws)

\* C1 witness: kubernetes comes before terraform in the query, provider None
C1_Witness ==
  /\ CallAnswered("suggest_solution")
  /\ request.provider = None
  /\ request.query =
       <<"K", "U", "B", "E", "R", "N", "E", "T", "E", "S">>
         \o <<"t", "e", "r", "r", "a">> \o <<"f", "o", "r", "m">>
  /\ response.kind = "return"
  /\ response.value.code_examples = <<terraform_example_aws, k8s_example>>

\* C2: whenever the query holds 'terraform' and the provider is aws, azure or
\* gcp, the result's recommendations hold the terraform recommendation and
\* its code_examples hold that provider's terraform example and no other
\* provider's.
C2_TerraformExampleOfProvider ==
  ( /\ CallAnswered("suggest_solution")
    /\ HasKeyword(terraform, request.query)
    /\ request.provider \in {aws, azure, gcp} )
  => /\ response.kind = "return"
     /\ InSeq(TerraformRecommendation, response.value.recommendations)
     /\ InSeq(TerraformTextOf(request.provider), response.value.code_examples)
     /\ \A other \in {aws, azure, gcp} \ {request.provider} :
          ~InSeq(TerraformTextOf(other), response.value.code_examples)

\* C2 witness: a terraform query for azure got the azure example
C2_Witness ==
  /\ CallAnswered("suggest_solution")
  /\ request.provider = azure
  /\ HasKeyword(terraform, request.query)
  /\ response.kind = "return"
  /\ response.value.code_examples = <<terraform_example_azure>>

\* C3: whenever the query is non-empty and holds neither keyword, for every
\* provider value, suggest_solution returns (does not raise) a result with
\* empty recommendations and empty code_examples.
C3_NoKeywordEmptyResult ==
  ( /\ CallAnswered("suggest_solution")
    /\ request.query # <<>>
    /\ ~HasKeyword(terraform, request.query)
    /\ ~HasKeyword(kubernetes, request.query) )
  => /\ response.kind = "return"
     /\ response.value.recommendations = <<>>
     /\ response.value.code_examples = <<>>

\* C3 witness: the parts of a keyword, kept apart, match nothing
C3_Witness ==
  /\ CallAnswered("suggest_solution")
  /\ request.provider = azure
  /\ request.query =
       <<"t", "e", "r", "r", "a">> \o <<" ", "\t">> \o <<"f", "o", "r", "m">>
  /\ response.kind = "return"
  /\ response.value.recommendations = <<>>

\* C4, as claimed: suggest_solution itself yields a validation error, not a
\* result, whenever the query is empty or whitespace only.
C4_Original ==
  (CallAnswered("suggest_solution") /\ IsBlank(request.query))
  => response.kind = "raise"

\* C4, amended: suggest_solution does not validate the query: for an empty or
\* whitespace-only query and every provider value it returns a result that
\* echoes the query and has empty recommendations and empty code_examples.
C4_BlankQueryIsClassified ==
  (CallAnswered("suggest_solution") /\ IsBlank(request.query))
  => /\ response.kind = "return"
     /\ response.value.query = request.query
     /\ response.value.recommendations = <<>>
     /\ response.value.code_examples = <<>>

\* C4 witness: a whitespace-only query came back as a result
C4_Witness ==
  /\ CallAnswered("suggest_solution")
  /\ request.query = <<" ", "\t">>
  /\ response.kind = "return"

\* C5: in both applications a POST to /query whose query field is missing,
\* empty or whitespace only is answered with exactly {'error': 'Please enter
\* a query'}, and suggest_solution is not invoked, whatever the provider
\* field is.
C5_BlankQueryRejectedByHandler ==
  \A a \in Apps :
    ( /\ HttpAnswered(a, "/query", "POST")
      /\ ("query" \in DOMAIN request.form => IsBlank(request.form["query"])) )
    => /\ response.kind = "json"
       /\ DOMAIN response.body = {"error"}
       /\ response.body.error = "Please enter a query"
       /\ ~InSeq("suggest_solution", calls)

\* C5 witness: simple_app.py rejected a whitespace-only query sent with a
\* provider
C5_Witness ==
  /\ HttpAnswered("simple_app", "/query", "POST")
  /\ DOMAIN request.form = {"query", "provider"}
  /\ request.form["query"] = <<" ", "\t">>
  /\ request.form["provider"] = aws
  /\ response.kind = "json"
  /\ DOMAIN response.body = {"error"}

\* the snippet lookup of a helper was called directly for a pair it has no
\* entry for
MissedSnippetCall ==
  /\ CallAnswered("generate_sdk_example")
  /\ ~InSnippetCatalog(request.helper, request.service, request.operation)

\* /generate_sdk of simple_app.py was asked for a triple it has no entry for
MissedSnippetSimple ==
  /\ HttpAnswered("simple_app", "/generate_sdk", "POST")
  /\ ~ ( /\ DOMAIN request.form = {"provider", "service", "operation"}
         /\ request.form["provider"] = aws
         /\ InSnippetCatalog("aws", request.form["service"],
                             request.form["operation"]) )

\* the value of a form field as the handlers read it: None when missing
FieldText(form, key) ==
  IF key \in DOMAIN form THEN text(form[key]) ELSE "None"

\* C6, as claimed: for a triple not in the catalog the lookups return exactly
\* 'Example for {service} {operation} not available'.
C6_Original ==
  /\ MissedSnippetCall
       => /\ response.kind = "return"
          /\ response.value =
               "Example for " \o text(request.service) \o " "
                 \o text(request.operation) \o " not available"
  /\ MissedSnippetSimple
       => /\ response.kind = "json"
          /\ response.body.code =
               "Example for " \o FieldText(request.form, "service") \o " "
                 \o FieldText(request.form, "operation") \o " not available"

\* C6, amended: for a pair not in its catalog each helper's lookup returns
\* exactly '# Example for {service} {operation} not available' (a missing
\* value reads None); the /generate_sdk lookup of simple_app.py returns
\* exactly '# Example for {provider} {service} {operation} not available'.
C6_PlaceholderIsAComment ==
  /\ MissedSnippetCall
       => /\ response.kind = "return"
          /\ response.value =
               "# Example for " \o text(request.service) \o " "
                 \o text(request.operation) \o " not available"
  /\ MissedSnippetSimple
       => /\ response.kind = "json"
          /\ response.body.code =
               "# Example for " \o FieldText(request.form, "provider") \o " "
                 \o FieldText(request.form, "service") \o " "
                 \o FieldText(request.form, "operation") \o " not available"

\* C6 witness: gcp has no entry for a pair that aws has
C6_Witness ==
  /\ MissedSnippetCall
  /\ request.helper = "gcp"
  /\ text(request.service) = "ec2"
  /\ text(request.operation) = "list_instances"
  /\ response = Return("# Example for ec2 list_instances not available")

\* C7: for each helper and every use case that is no key of its table,
\* get_service_recommendations returns exactly three strings, the first being
\* 'Define your requirements more specifically'.
C7_FallbackOfThree ==
  ( /\ CallAnswered("get_service_recommendations")
    /\ ~IsMapped(request.helper, request.use_case) )
  => /\ response.kind = "return"
     /\ Len(response.value) = 3
     /\ response.value[1] = "Define your requirements more specifically"

\* C7 witness: container_workloads is no key of the azure table
C7_Witness ==
  /\ CallAnswered("get_service_recommendations")
  /\ request.helper = "azure"
  /\ request.use_case # None
  /\ text(request.use_case) = "container_workloads"
  /\ response.kind = "return"
  /\ Len(response.value) = 3

\* C8: for every helper and every use case, mapped or not,
\* get_service_recommendations returns a non-empty list of non-empty strings.
C8_RecommendationsNonEmpty ==
  CallAnswered("get_service_recommendations")
  => /\ response.kind = "return"
     /\ Len(response.value) >= 1
     /\ \A i \in 1..Len(response.value) : response.value[i] # ""

\* C8 witness: the aws helper answered the empty use case with a list
C8_Witness ==
  /\ CallAnswered("get_service_recommendations")
  /\ request.helper = "aws"
  /\ request.use_case = <<>>
  /\ response.kind = "return"
  /\ Len(response.value) = 3

\* /recommendations/<use_case> of app `a` answered a use case that none of
\* the tables behind it has
UnmappedRecommendations(a) ==
  /\ HttpAnswered(a, "/recommendations", "GET")
  /\ IF a = "app"
     THEN \A h \in Helpers : ~IsMapped(h, request.use_case)
     ELSE text(request.use_case) \notin SimpleMappedUseCases

\* C9, as claimed: both applications answer an unmapped use case with
\* exactly three strings for each of aws, azure and gcp.
C9_Original ==
  \A a \in Apps :
    UnmappedRecommendations(a)
    => /\ response.kind = "json"
       /\ Len(response.body.aws) = 3
       /\ Len(response.body.azure) = 3
       /\ Len(response.body.gcp) = 3

\* C9, amended: app.py answers an unmapped use case with exactly three
\* strings for each of aws, azure and gcp; simple_app.py answers it with
\* exactly one string, 'Define requirements more specifically', for each of
\* the three; the two variants do not agree on the shape of the fallback.
C9_FallbackShapePerApp ==
  /\ UnmappedRecommendations("app")
       => /\ response.kind = "json"
          /\ Len(response.body.aws) = 3
          /\ Len(response.body.azure) = 3
          /\ Len(response.body.gcp) = 3
  /\ UnmappedRecommendations("simple_app")
       => /\ response.kind = "json"
          /\ response.body.aws = <<"Define requirements more specifically">>
          /\ response.body.azure = <<"Define requirements more specifically">>
          /\ response.body.gcp = <<"Define requirements more specifically">>

\* C9 witness: simple_app.py answered a use case that the helpers map and its
\* own table does not
C9_Witness ==
  /\ UnmappedRecommendations("simple_app")
  /\ text(request.use_case) = "machine_learning"
  /\ Len(response.body.gcp) = 1

\* C10: for every query and every provider value (aws, azure, gcp, None, the
\* empty string, a string outside the set) suggest_solution returns a result
\* with the keys query, provider, recommendations, code_examples and
\* best_practices, and never raises.
C10_SuggestSolutionTotal ==
  CallAnswered("suggest_solution")
  => /\ response.kind = "return"
     /\ DOMAIN response.value = QueryResultKeys

\* C10 witness: a terraform query for a provider outside the set returned
C10_Witness ==
  /\ CallAnswered("suggest_solution")
  /\ request.provider = vmware
  /\ HasKeyword(terraform, request.query)
  /\ response.kind = "return"
  /\ Len(response.value.code_examples) = 1


\* the provider field of the form names one of the three helpers
KnownSdkProvider(form) ==
  "provider" \in DOMAIN form /\ text(form.provider) \in Helpers

\* the form names a helper and a (service, operation) pair of its lookup
MappedSdkForm(form) ==
  /\ KnownSdkProvider(form)
  /\ {"service", "operation"} \subseteq DOMAIN form
  /\ InSnippetCatalog(text(form.provider), form.service, form.operation)

\* C11: every /generate_sdk request of app.py whose provider, service and
\* operation are not an entry of a helper's lookup (unknown provider and
\* missing fields included) gets a success response and no error; its code is
\* '# Unsupported provider' when the provider is none of aws, azure, gcp, and
\* the helper's '# Example for {service} {operation} not available' otherwise.
C11_UnmappedSdkIsPlaceholder ==
  ( /\ HttpAnswered("app", "/generate_sdk", "POST")
    /\ ~MappedSdkForm(request.form) )
  => /\ response.kind = "json"
     /\ "error" \notin DOMAIN response.body
     /\ response.body.success = TRUE
     /\ response.body.code =
          IF KnownSdkProvider(request.form)
          THEN "# Example for " \o FieldText(request.form, "service") \o " "
                 \o FieldText(request.form, "operation") \o " not available"
          ELSE "# Unsupported provider"

\* C11 witness: a form with no provider field was answered with the
\* placeholder for an unsupported provider
C11_Witness ==
  /\ HttpAnswered("app", "/generate_sdk", "POST")
  /\ DOMAIN request.form = {"service", "operation"}
  /\ response.kind = "json"
  /\ response.body.code = "# Unsupported provider"

\* C15: whenever the query holds 'terraform' and the provider is None or any
\* value other than aws, azure and gcp (the empty string included), the
\* terraform example suggest_solution returns is the aws one.
C15_BaselineIsAws ==
  ( /\ CallAnswered("suggest_solution")
    /\ HasKeyword(terraform, request.query)
    /\ request.provider \notin {aws, azure, gcp} )
  => /\ response.kind = "return"
     /\ Len(response.value.code_examples) >= 1
     /\ response.value.code_examples[1] = terraform_example_aws

\* C15 witness: the empty string as provider got the aws example
C15_Witness ==
  /\ CallAnswered("suggest_solution")
  /\ request.provider = <<>>
  /\ request.query = <<"T", "e", "r", "r", "a", "f", "o", "r", "m">>
  /\ response.kind = "return"
  /\ response.value.code_examples = <<terraform_example_aws>>

\* the provider whose terraform example suggest_solution uses for `provider`
ResolvedProvider(provider) ==
  IF provider \in {aws, azure, gcp} THEN provider ELSE aws

\* C16, as claimed: the result echoes the query unchanged and carries the
\* resolved provider, aws when the hint is absent and the aws baseline is used.
C16_Original ==
  CallAnswered("suggest_solution")
  => /\ response.kind = "return"
     /\ response.value.query = request.query
     /\ response.value.provider = ResolvedProvider(request.provider)

\* C16, amended: the result echoes the query unchanged (same case) and the
\* provider argument unchanged, None when the hint is absent, also when the
\* aws example was used; /query reports a None or empty provider as 'General'.
C16_EchoesQueryAndHint ==
  /\ CallAnswered("suggest_solution")
       => /\ response.kind = "return"
          /\ response.value.query = request.query
          /\ response.value.provider = request.provider
  /\ \A a \in Apps :
       ( /\ HttpAnswered(a, "/query", "POST")
         /\ "success" \in DOMAIN response.body )
       => /\ response.body.query = strip(request.form.query)
          /\ response.body.provider =
               IF "provider" \in DOMAIN request.form
                  /\ strip(request.form.provider) \notin {<<>>, auto}
               THEN strip(request.form.provider)
               ELSE General

\* C16 witness: a mixed-case terraform query without a hint got the aws
\* example and a result whose provider is None
C16_Witness ==
  /\ CallAnswered("suggest_solution")
  /\ request.provider = None
  /\ request.query = <<"T", "e", "r", "r", "a", "f", "o", "r", "m">>
  /\ response.kind = "return"
  /\ response.value.query = request.query
  /\ response.value.provider = None
  /\ response.value.code_examples = <<terraform_example_aws>>

\* the request just answered equals the remembered one
Repeated ==
  /\ Answered
  /\ remembered # NoRemembered
  /\ remembered.request = request

Unspecified(form) ==
  "provider" \notin DOMAIN form \/ form.provider \in {<<>>, auto}

\* the request just answered and the remembered one are POSTs to /query of the
\* same application with the same query, both with the provider unspecified
BothUnspecified ==
  /\ Answered
  /\ remembered # NoRemembered
  /\ request.kind = "http"
  /\ remembered.request.kind = "http"
  /\ request.route = "/query"
  /\ remembered.request.route = "/query"
  /\ request.method = "POST"
  /\ remembered.request.method = "POST"
  /\ request.app = remembered.request.app
  /\ request.form.query = remembered.request.form.query
  /\ Unspecified(request.form)
  /\ Unspecified(remembered.request.form)

\* C17: in both applications, two POSTs to /query with the same query whose
\* provider is 'auto', empty or missing get identical responses; when the
\* response is a result its provider reads 'General'.
C17_AutoMeansUnspecified ==
  BothUnspecified
  => /\ response = remembered.response
     /\ "success" \in DOMAIN response.body => response.body.provider = General

\* C17 witness: provider 'auto' was answered as the same terraform query
\* without a provider field had been
C17_Witness ==
  /\ BothUnspecified
  /\ request.app = "app"
  /\ "provider" \in DOMAIN request.form
  /\ request.form.provider = auto
  /\ "provider" \notin DOMAIN remembered.request.form
  /\ HasKeyword(terraform, request.form.query)
  /\ response = remembered.response
  /\ response.body.provider = General
  /\ response.body.code_examples = <<terraform_example_aws>>

\* the characters c and d are equal or the two cases of one letter
SameButCase(c, d) ==
  c = d \/ \E k \in DOMAIN LowerCase : {c, d} = {LowerCase[k], UpperCase[k]}

\* the texts differ in letter case at most
DifferInCaseOnly(q1, q2) ==
  Len(q1) = Len(q2) /\ \A i \in 1..Len(q1) : SameButCase(q1[i], q2[i])

\* the call of suggest_solution just answered and a remembered one have the
\* same provider and queries that differ in letter case only
CaseVariants ==
  /\ CallAnswered("suggest_solution")
  /\ remembered # NoRemembered
  /\ remembered.request.kind = "call"
  /\ remembered.request.target = "suggest_solution"
  /\ remembered.request.provider = request.provider
  /\ DifferInCaseOnly(remembered.request.query, request.query)

\* C18: two calls of suggest_solution with the same provider and queries that
\* differ in letter case only return the same recommendations and the same
\* code_examples.
C18_CaseInsensitive ==
  CaseVariants
  => /\ response.kind = "return"
     /\ remembered.response.kind = "return"
     /\ response.value.recommendations =
          remembered.response.value.recommendations
     /\ response.value.code_examples = remembered.response.value.code_examples

\* C18 witness: 'terraform' got what 'Terraform' had got
C18_Witness ==
  /\ CaseVariants
  /\ request.query = <<"t", "e", "r", "r", "a", "f", "o", "r", "m">>
  /\ remembered.request.query = <<"T", "e", "r", "r", "a", "f", "o", "r", "m">>
  /\ response.value.recommendations = <<TerraformRecommendation>>
  /\ remembered.response.value.recommendations = <<TerraformRecommendation>>

\* the defaults of the ten keys
Ec2Defaults ==
  [ name |-> "web_server",
    ami |-> "ami-0c55b159cbfafe1d0",
    instance_type |-> "t2.micro",
    key_name |-> "my-key-pair",
    subnet_id |-> "subnet-12345678",
    display_name |-> "Web Server",
    environment |-> "production",
    user_data |-> "# Add your startup scripts here",
    vpc_id |-> "vpc-12345678",
    ssh_cidr |-> "10.0.0.0/8" ]

\* what stands for the placeholder of `key`: the supplied value when the
\* config has the key, its default when it has not
Ec2Value(config, key) ==
  IF key \in DOMAIN config THEN text(config[key]) ELSE Ec2Defaults[key]

\* the template (without the white space around it) with every placeholder
\* replaced
Ec2Expected(config) ==
  "# AWS EC2 Instance Configuration\nresource \"aws_instance\" \""
    \o Ec2Value(config, "name")
    \o "\" {\n  ami           = \""
    \o Ec2Value(config, "ami")
    \o "\"\n  instance_type = \""
    \o Ec2Value(config, "instance_type")
    \o "\"\n  key_name      = \""
    \o Ec2Value(config, "key_name")
    \o "\"\n  \n  vpc_security_group_ids = [aws_security_group."
    \o Ec2Value(config, "name")
    \o "_sg.id]\n  subnet_id              = \""
    \o Ec2Value(config, "subnet_id")
    \o "\"\n  \n  tags = {\n    Name        = \""
    \o Ec2Value(config, "display_name")
    \o "\"\n    Environment = \""
    \o Ec2Value(config, "environment")
    \o "\"\n  }\n  \n  user_data = <<-EOF\n    #!/bin/bash\n    yum update -y\n    "
    \o Ec2Value(config, "user_data")
    \o "\n  EOF\n}\n\n# Security Group for EC2\nresource \"aws_security_group\" \""
    \o Ec2Value(config, "name")
    \o "_sg\" {\n  name        = \""
    \o Ec2Value(config, "name")
    \o "-sg\"\n  description = \"Security group for "
    \o Ec2Value(config, "display_name")
    \o "\"\n  vpc_id      = \""
    \o Ec2Value(config, "vpc_id")
    \o "\"\n  \n  ingress {\n    from_port   = 80\n    to_port     = 80\n    protocol    = \"tcp\"\n    cidr_blocks = [\"0.0.0.0/0\"]\n  }\n  \n  ingress {\n    from_port   = 443\n    to_port     = 443\n    protocol    = \"tcp\"\n    cidr_blocks = [\"0.0.0.0/0\"]\n  }\n  \n  ingress {\n    from_port   = 22\n    to_port     = 22\n    protocol    = \"tcp\"\n    cidr_blocks = [\""
    \o Ec2Value(config, "ssh_cidr")
    \o "\"]\n  }\n  \n  egress {\n    from_port   = 0\n    to_port     = 0\n    protocol    = \"-1\"\n    cidr_blocks = [\"0.0.0.0/0\"]\n  }\n  \n  tags = {\n    Name = \""
    \o Ec2Value(config, "name")
    \o "-sg\"\n  }\n}"

\* C19: for every subset of the ten keys (and configs with other keys or with
\* values that hold braces or blanks), generate_terraform_ec2 returns the text
\* of the template in which each placeholder is replaced by the supplied
\* value when the key is present and by its default when it is missing, and
\* nothing else is changed but the white space around the template, which is
\* stripped.
C19_KeyedDefaultSubstitution ==
  CallAnswered("generate_terraform_ec2")
  => /\ response.kind = "return"
     /\ response.value.type = "str"
     /\ response.value.text = Ec2Expected(request.config)

\* C19 witness: the config of the demonstration (name, ami, instance_type,
\* environment and display_name given, the other five keys missing)
C19_Witness ==
  /\ CallAnswered("generate_terraform_ec2")
  /\ DOMAIN request.config =
       {"name", "ami", "instance_type", "environment", "display_name"}
  /\ response.kind = "return"
  /\ response.value.text = Ec2Expected(request.config)
  /\ Ec2Value(request.config, "name") = "db_1"
  /\ Ec2Value(request.config, "vpc_id") = "vpc-12345678"

\* C20, as claimed: every function-body generator returns text for every
\* config, also when the runtime is none of those it recognises.
C20_Original ==
  CallAnswered("generate_function")
  => /\ response.kind = "return"
     /\ response.value.type = "str"

\* the runtimes for which generate_lambda_function returns text
LambdaTextRuntime(config) ==
  /\ "runtime" \in DOMAIN config
  /\ Len(config.runtime) >= 4
  /\ SubSeq(config.runtime, 1, 4) = <<"n", "o", "d", "e">>

\* C20, as the code has it: generate_lambda_function returns text only for a
\* runtime that starts with 'node'; for a runtime that starts with 'python'
\* (the default) it raises KeyError, for any other it returns None.
\* generate_azure_function and generate_cloud_function return None for a
\* runtime they do not recognise and have no text for those they do.
C20_GeneratorsFailOrReturnNone ==
  CallAnswered("generate_function")
  => IF request.helper = "aws" /\ LambdaTextRuntime(request.config)
     THEN response = Return(str_value(lambda_node_text))
     ELSE \/ response.kind = "raise"
          \/ response = Return(NoneValue)

\* C20 witness: generate_lambda_function returned None for the runtime go1.x
C20_Witness ==
  /\ CallAnswered("generate_function")
  /\ request.helper = "aws"
  /\ "runtime" \in DOMAIN request.config
  /\ request.config.runtime = <<"g", "o", "1", ".", "x">>
  /\ response = Return(NoneValue)

\* a request of app.py has been handled
AppAnswered ==
  /\ request # NoRequest
  /\ request.kind = "http"
  /\ request.app = "app"
  /\ response # NoResponse

\* C13: after construction no handler changes the catalog: whatever requests
\* have been handled (/query, /generate_terraform, /generate_sdk,
\* /recommendations, /api/search, the pages), agent.cloud_providers,
\* agent.hypervisors and the three helpers' services are the values the
\* constructors built.
C13_CatalogNeverMutated ==
  /\ agent.cloud_providers = _initialize_providers
  /\ agent.hypervisors = _initialize_hypervisors
  /\ aws_helper.services = AWSHelper.services
  /\ azure_helper.services = AzureHelper.services
  /\ gcp_helper.services = GCPHelper.services

\* C13 witness: /api/search has answered 'aws' with the provider it found in
\* agent.cloud_providers, and the catalog is as constructed
C13_Witness ==
  /\ AppAnswered
  /\ request.route = "/api/search"
  /\ "q" \in DOMAIN request.args
  /\ request.args.q = <<"a", "w", "s">>
  /\ response.kind = "json"
  /\ Len(response.body) = 1
  /\ response.body[1].title = "Amazon Web Services"
  /\ C13_CatalogNeverMutated

\* the response of request r when it is the only request: the handler run
\* from its first statement to its last with nothing in between
RunAlone(r) ==
  CASE r.route = "/query" -> app_query_agent(r.method, r.form).response
    [] r.route = "/recommendations" -> app_recommendations(r.use_case).response
    [] r.route = "/generate_sdk" -> app_generate_sdk(r.form).response

\* s is the beginning of u
IsPrefix(s, u) == Len(s) <= Len(u) /\ s = SubSeq(u, 1, Len(s))

\* the dictionary thread t is building holds its own query and provider and
\* the beginning of its own result, nothing of another request
OwnPartialResult(t) ==
  LET frame == threads[t].frame
      alone == suggest_solution(frame.query, frame.provider)
  IN  /\ frame.suggestions.query = frame.query
      /\ frame.suggestions.provider = frame.provider
      /\ alone.kind = "return"
      /\ IsPrefix(frame.suggestions.recommendations,
                  alone.value.recommendations)
      /\ IsPrefix(frame.suggestions.code_examples, alone.value.code_examples)

\* C14: however the statements of several /query, /recommendations and
\* /generate_sdk requests interleave, a request that has finished has the
\* response it gets when run alone, and the result a /query request is
\* building never holds anything of another request.
C14_InterleavingKeepsResponses ==
  \A t \in Threads :
    /\ threads[t].pc = "done"
       => threads[t].response = RunAlone(threads[t].request)
    /\ ( /\ threads[t].pc = "suggest_solution"
         /\ "suggestions" \in DOMAIN threads[t].frame )
       => OwnPartialResult(t)

\* C14 witness: a /query request for terraform has finished with its
\* run-alone response while another thread is in the middle of building the
\* result of a kubernetes query
C14_Witness ==
  \E t, u \in Threads :
    /\ t # u
    /\ threads[t].pc = "done"
    /\ threads[t].request.route = "/query"
    /\ threads[t].response.kind = "json"
    /\ "recommendations" \in DOMAIN threads[t].response.body
    /\ threads[t].response.body.recommendations
         = <<"Use Terraform for infrastructure as code">>
    /\ threads[t].response = RunAlone(threads[t].request)
    /\ threads[u].pc = "suggest_solution"
    /\ threads[u].frame.at = "kubernetes_example"
    /\ threads[u].frame.suggestions.recommendations
         = <<"Consider managed Kubernetes services">>

\* the routes of app.py whose body is inside try/except
GuardedRoutes ==
  {"/query", "/generate_terraform", "/generate_sdk", "/recommendations"}

\* the fields of the JSON body each guarded route returns from inside its try
ResultFields(route) ==
  CASE route = "/query" ->
         {"success", "query", "provider", "recommendations", "code_examples"}
    [] route = "/generate_terraform" ->
         {"success", "code", "provider", "resource_type"}
    [] route = "/generate_sdk" ->
         {"success", "code", "provider", "service", "operation"}
    [] route = "/recommendations" -> {"use_case", "aws", "azure", "gcp"}

\* a method called by the handler of the request just answered raised
ComputationRaised ==
  /\ request.route = "/generate_terraform"
  /\ form_get(request.form, "provider", None) = gcp
  /\ form_get(request.form, "resource_type", None) = compute
  /\ generate_terraform_compute(<<>>).kind = "raise"

ServiceCategories ==
  {"compute", "storage", "database", "networking", "security", "monitoring"}

\* a dictionary from exactly the six categories to non-empty lists of names
IsServicesMap(services) ==
  /\ DOMAIN services = ServiceCategories
  /\ \A category \in ServiceCategories :
       /\ Len(services[category]) > 0
       /\ \A i \in 1..Len(services[category]) : services[category][i] # ""

\* C22: at all times the services of AWSHelper, AzureHelper and GCPHelper
\* each map the same six categories (compute, storage, database, networking,
\* security, monitoring) to a non-empty list of service names.
C22_ServicesOfEveryProvider ==
  /\ IsServicesMap(aws_helper.services)
  /\ IsServicesMap(azure_helper.services)
  /\ IsServicesMap(gcp_helper.services)

\* C22 witness: the /aws page has been rendered with the services of
\* aws_helper, six categories, the first compute service being EC2
C22_Witness ==
  /\ AppAnswered
  /\ request.route = "/aws"
  /\ response.context.services = aws_helper.services
  /\ IsServicesMap(response.context.services)
  /\ response.context.services.compute[1] = "EC2"
  /\ Len(response.context.services.monitoring) = 3

\* how many of the two trigger keywords the text q holds
KeywordCount(q) ==
  (IF HasKeyword(terraform, q) THEN 1 ELSE 0)
  + (IF HasKeyword(kubernetes, q) THEN 1 ELSE 0)

\* the code example belongs to the keyword of the recommendation
SameKeyword(recommendation, example) ==
  \/ recommendation = TerraformRecommendation /\ example \in TerraformTexts
  \/ recommendation = KubernetesRecommendation /\ example = k8s_example

\* C23: in every result of suggest_solution, recommendations and
\* code_examples have the same length, that length is the number of the
\* two trigger keywords the query holds (0, 1 or 2, a keyword held twice
\* counting once), the i-th code example belongs to the keyword of the i-th
\* recommendation, and best_practices is empty.
C23_RecommendationsAndExamplesAligned ==
  (CallAnswered("suggest_solution") /\ response.kind = "return")
  => LET result == response.value
     IN  /\ Len(result.recommendations) = Len(result.code_examples)
         /\ Len(result.recommendations) = KeywordCount(request.query)
         /\ \A i \in 1..Len(result.recommendations) :
              SameKeyword(result.recommendations[i], result.code_examples[i])
         /\ result.best_practices = <<>>

\* C23 witness: a query that holds 'terraform' twice and 'kubernetes' once
\* returned two recommendations and two code examples
C23_Witness ==
  /\ CallAnswered("suggest_solution")
  /\ response.kind = "return"
  /\ request.query
       = <<"T", "e", "r", "r", "a", "f", "o", "r", "m">>
         \o <<"K", "U", "B", "E", "R", "N", "E", "T", "E", "S">>
         \o <<"T", "e", "r", "r", "a", "f", "o", "r", "m">>
  /\ Len(response.value.recommendations) = 2
  /\ Len(response.value.code_examples) = 2
  /\ response.value.code_examples[2] = k8s_example

\* the request just answered and the remembered one are calls of
\* suggest_solution with the same query, which holds 'kubernetes'
SameKubernetesQuery ==
  /\ Answered
  /\ remembered # NoRemembered
  /\ request.kind = "call"
  /\ remembered.request.kind = "call"
  /\ request.target = "suggest_solution"
  /\ remembered.request.target = "suggest_solution"
  /\ request.query = remembered.request.query
  /\ HasKeyword(kubernetes, request.query)
  /\ response.kind = "return"
  /\ remembered.response.kind = "return"

\* the code example at the place of the recommendation, in a result
EntryOf(recommendation, result) ==
  result.code_examples[
    CHOOSE i \in 1..Len(result.recommendations) :
      result.recommendations[i] = recommendation]

\* C24: two calls of suggest_solution with the same query holding
\* 'kubernetes' and any two provider values return the same kubernetes code
\* example.
C24_KubernetesIgnoresProvider ==
  SameKubernetesQuery
  => /\ InSeq(KubernetesRecommendation, response.value.recommendations)
     /\ InSeq(KubernetesRecommendation, remembered.response.value.recommendations)
     /\ EntryOf(KubernetesRecommendation, response.value)
          = EntryOf(KubernetesRecommendation, remembered.response.value)

\* C24 witness: the same terraform and kubernetes query was answered for
\* azure and for no provider: the terraform examples differ, the kubernetes
\* examples are the same
C24_Witness ==
  /\ SameKubernetesQuery
  /\ HasKeyword(terraform, request.query)
  /\ request.provider = azure
  /\ remembered.request.provider = None
  /\ EntryOf(TerraformRecommendation, response.value)
       # EntryOf(TerraformRecommendation, remembered.response.value)
  /\ EntryOf(KubernetesRecommendation, response.value)
       = EntryOf(KubernetesRecommendation, remembered.response.value)

\* /recommendations of app.py has answered
RecommendationsAnswered == HttpAnswered("app", "/recommendations", "GET")

\* the answer holds the generic fallback for the provider
FallbackFor(provider) ==
  CASE provider = "aws" -> response.body.aws = aws_fallback
    [] provider = "azure" -> response.body.azure = azure_fallback
    [] provider = "gcp" -> response.body.gcp = gcp_fallback

\* the answer holds the fallback for all three providers or for none
ProvidersAgree ==
  \/ \A provider \in Helpers : FallbackFor(provider)
  \/ \A provider \in Helpers : ~FallbackFor(provider)

\* every use case a provider's page offers is a key of the provider's table
PagesOfferMappedUseCases ==
  (AppAnswered /\ request.route \in {"/aws", "/azure", "/gcp"})
  => \A i \in 1..Len(response.context.use_cases) :
       response.context.use_cases[i]
         \in DOMAIN (CASE request.route = "/aws" -> aws_recommendations
                       [] request.route = "/azure" -> azure_recommendations
                       [] request.route = "/gcp" -> gcp_recommendations)

\* C25, as claimed: /recommendations never answers with a catalog list for
\* one provider and the generic fallback for another, and every use case a
\* provider's page offers is mapped for that provider.
C25_Original ==
  /\ RecommendationsAnswered => ProvidersAgree
  /\ PagesOfferMappedUseCases

container_workloads ==
  << "c", "o", "n", "t", "a", "i", "n", "e", "r", "_",
     "w", "o", "r", "k", "l", "o", "a", "d", "s" >>

\* C25, amended: the providers agree on every use case but
\* 'container_workloads', which only GCPHelper maps: there /recommendations
\* answers with the catalog list of gcp and the generic fallback of aws and
\* of azure.  Every use case a provider's page offers is mapped for that
\* provider.
C25_ProvidersAgreeButContainers ==
  /\ RecommendationsAnswered
     => IF request.use_case = container_workloads
        THEN /\ response.body.gcp = gcp_recommendations.container_workloads
             /\ ~FallbackFor("gcp")
             /\ FallbackFor("aws")
             /\ FallbackFor("azure")
        ELSE ProvidersAgree
  /\ PagesOfferMappedUseCases

\* C25 witness: /recommendations/container_workloads was answered with the
\* five recommendations of gcp and three fallback strings for aws
C25_Witness ==
  /\ RecommendationsAnswered
  /\ request.use_case = container_workloads
  /\ Len(response.body.gcp) = 5
  /\ Len(response.body.aws) = 3
  /\ response.body.aws = aws_fallback

\* the character c with a capital letter replaced by its small letter
Fold(c) ==
  IF \E k \in DOMAIN UpperCase : UpperCase[k] = c
  THEN LowerCase[CHOOSE k \in DOMAIN UpperCase : UpperCase[k] = c]
  ELSE c

\* the text `name` holds the text q somewhere, case ignored on both sides;
\* the empty text is held by every text
Holds(q, name) ==
  \E start \in 1..(Len(name) + 1) :
    /\ start + Len(q) - 1 <= Len(name)
    /\ \A j \in 1..Len(q) : Fold(name[start + j - 1]) = Fold(q[j])

\* what /api/search looks through, in catalog order: the help categories,
\* then the providers
SearchCatalog ==
  [ i \in 1..Len(get_help_categories) |->
      [type |-> "category", title |-> get_help_categories[i], key |-> ""] ]
  \o
  [ i \in 1..Len(provider_keys) |->
      [ type |-> "provider",
        title |-> agent.cloud_providers[provider_keys[i]].name,
        key |-> provider_keys[i] ] ]

\* the entry matches the query
Matches(q, entry) ==
  \/ Holds(q, chars(entry.title))
  \/ entry.type = "provider" /\ Holds(q, chars(entry.key))

\* the positions in SearchCatalog of the entries that match, ascending
RECURSIVE MatchingFrom(_, _)
MatchingFrom(q, i) ==
  IF i > Len(SearchCatalog)
  THEN <<>>
  ELSE (IF Matches(q, SearchCatalog[i]) THEN <<i>> ELSE <<>>)
       \o MatchingFrom(q, i + 1)

\* the query of the /api/search request just answered
SearchQuery == IF "q" \in DOMAIN request.args THEN request.args.q ELSE <<>>

\* C26: /api/search returns exactly the matching entries in catalog order:
\* the help categories whose name holds q, case ignored, then the providers
\* whose display name or key holds q; nothing that does not match, nothing
\* twice; an empty or missing q returns the 9 categories and the 3 providers.
C26_SearchReturnsMatchesInOrder ==
  (AppAnswered /\ request.route = "/api/search")
  => LET found == response.body
         expected == MatchingFrom(SearchQuery, 1)
     IN  /\ response.kind = "json"
         /\ Len(found) = Len(expected)
         /\ \A i \in 1..Len(found) :
              /\ found[i].type = SearchCatalog[expected[i]].type
              /\ found[i].title = SearchCatalog[expected[i]].title
              /\ Matches(SearchQuery, SearchCatalog[expected[i]])
         /\ \A i, j \in 1..Len(found) : i # j => found[i] # found[j]
         /\ SearchQuery = <<>>
            => /\ Len(found) = 12
               /\ \A i \in 1..9 : found[i].type = "category"
               /\ \A i \in 10..12 : found[i].type = "provider"

\* C26 witness: the query 'AZURE' found the one provider whose name holds it
\* in another case, and no category
C26_Witness ==
  /\ AppAnswered
  /\ request.route = "/api/search"
  /\ SearchQuery = <<"A", "Z", "U", "R", "E">>
  /\ Len(response.body) = 1
  /\ response.body[1].type = "provider"
  /\ response.body[1].title = "Microsoft Azure"

\* /generate_terraform of app.py has answered
TerraformAnswered ==
  AppAnswered /\ request.route = "/generate_terraform"

\* the (provider, resource_type) pair of the form, None for a missing field
TerraformPair ==
  << form_get(request.form, "provider", None),
     form_get(request.form, "resource_type", None) >>

Unsupported == "# Unsupported provider/resource combination"

\* the body is a success body that echoes the pair of the form
EchoesPair ==
  /\ response.kind = "json"
  /\ DOMAIN response.body = {"success", "code", "provider", "resource_type"}
  /\ response.body.success = TRUE
  /\ response.body.provider = TerraformPair[1]
  /\ response.body.resource_type = TerraformPair[2]

\* C27, as claimed: /generate_terraform answers every form with a success
\* body that echoes provider and resource_type; the code is generated code
\* for the pairs (aws, ec2), (azure, vm) and (gcp, compute) and
\* '# Unsupported provider/resource combination' for every other pair.
C27_Original ==
  TerraformAnswered
  => /\ EchoesPair
     /\ IF TerraformPair \in {<<aws, ec2>>, <<azure, vm>>, <<gcp, compute>>}
        THEN response.body.code # Unsupported
        ELSE response.body.code = Unsupported

\* C27, as the code has it: the same for every pair but (gcp, compute), where
\* generate_terraform_compute has no text to return and the answer is an
\* error body without code, provider or resource_type.
C27_GcpComputeFails ==
  TerraformAnswered
  => IF TerraformPair = <<gcp, compute>>
     THEN /\ response.kind = "json"
          /\ "error" \in DOMAIN response.body
          /\ DOMAIN response.body
               \cap {"success", "code", "provider", "resource_type"} = {}
     ELSE /\ EchoesPair
          /\ IF TerraformPair \in {<<aws, ec2>>, <<azure, vm>>}
             THEN response.body.code # Unsupported
             ELSE response.body.code = Unsupported

\* C27 witness: the form (gcp, compute) was answered with an error body
C27_Witness ==
  /\ TerraformAnswered
  /\ TerraformPair = <<gcp, compute>>
  /\ "error" \in DOMAIN response.body
  /\ "code" \notin DOMAIN response.body

\* the text s without the white space before its first and after its last
\* character that is none
Trimmed(s) ==
  LET inked == {i \in 1..Len(s) : s[i] \notin Whitespace}
  IN  IF inked = {}
      THEN <<>>
      ELSE SubSeq(s, CHOOSE i \in inked : \A j \in inked : i <= j,
                     CHOOSE i \in inked : \A j \in inked : i >= j)

\* the config the claim describes: the fields of the form but provider and
\* resource_type and the blank ones, each value trimmed
ConfigOf(form) ==
  [ key \in { k \in DOMAIN form \ {"provider", "resource_type"} :
                ~IsBlank(form[k]) }
      |-> Trimmed(form[key]) ]

\* the form without its blank fields
WithoutBlanks(form) ==
  [key \in {k \in DOMAIN form : ~IsBlank(form[k])} |-> form[key]]

\* C28: the code /generate_terraform returns for (aws, ec2) and (azure, vm)
\* is the generator's text for the config that holds neither 'provider' nor
\* 'resource_type', no field whose value is empty or white space only, and
\* every other value trimmed; hence a field left blank gives the same code as
\* the form without that field: the generator's default stands for it.
C28_ConfigIsTrimmedNonBlankFields ==
  TerraformAnswered
  => /\ TerraformPair = <<aws, ec2>>
        => /\ "code" \in DOMAIN response.body
           /\ response.body.code = Ec2Expected(ConfigOf(request.form))
           /\ response.body.code
                = app_generate_terraform(WithoutBlanks(request.form))
                    .response.body.code
     /\ TerraformPair = <<azure, vm>>
        => /\ "code" \in DOMAIN response.body
           /\ response.body.code = azure_vm_simplified(ConfigOf(request.form))

\* C28 witness: an (aws, ec2) form with a blank name and an ami with white
\* space around it was answered with the default name and the trimmed ami
C28_Witness ==
  /\ TerraformAnswered
  /\ TerraformPair = <<aws, ec2>>
  /\ DOMAIN request.form = {"provider", "resource_type", "name", "ami", "location"}
  /\ request.form.name = <<" ", " ">>
  /\ request.form.ami = <<" ", "a", "m", "i", "-", "1", "\n">>
  /\ ConfigOf(request.form)
       = [ ami |-> <<"a", "m", "i", "-", "1">>,
           location |-> <<"W", "e", "s", "t", " ", "U", "S">> ]
  /\ response.body.code = Ec2Expected([ami |-> <<"a", "m", "i", "-", "1">>])

\* the list a reference stands for
Deref(value) == heap.objects[value.ref]

\* the value is a list the caller did not have before this call
Fresh(value) == value.ref > heap.held /\ value.ref <= Len(heap.objects)

====
